---------------------------- MODULE Spec2Model ----------------------------
(***************************************************************************)
(* A model of the Parquet page encoder of cpp/src/io/parquet/page_enc.cu:  *)
(* the hybrid RLE / bit-packing encoder (RleEncode, PackLiterals), the     *)
(* fragment statistics and dictionary builder (gpuInitPageFragments), the  *)
(* page planner (gpuInitPages), the page data encoder (gpuEncodePages),    *)
(* the compression decision (gpuDecideCompression) and the page header     *)
(* writer (gpuEncodePageHeaders).                                          *)
(*                                                                         *)
(* Every kernel is one thread block per fragment, page or chunk.  A kernel *)
(* whose lanes only meet at barriers is modelled by one action that        *)
(* computes what the block leaves behind; the dictionary builder, whose    *)
(* lanes race through atomics, takes one action per stretch between two    *)
(* barriers, and the action chooses the outcome of the races.              *)
(***************************************************************************)
EXTENDS Integers, Sequences, FiniteSets, TLC

VARIABLES
    rin,        \* RLE harness: the input handed to RleEncode (width, pattern, length, batch)
    s,          \* page_enc_state_s: the encoder state shared by the lanes of a block
    mem,        \* the bytes written behind s.rle_out's base (index -> byte)
    memFill,    \* what an unwritten byte of an output buffer reads as
    rcalls,     \* RLE harness: number of RleEncode calls made
    rlast,      \* RLE harness: the last call of RleEncode, its arguments and the runs it wrote
    bar,        \* the accesses of a block to its shared state: what is written since the last barrier
    col,        \* EncColumnDesc: the column being written
    chunks,     \* EncColumnChunk array, with each chunk's fragments
    pages,      \* EncPage array
    bfr,        \* the page buffers: page index -> (offset from page_data -> byte)
    ckbfr,      \* the chunk buffers: chunk index -> (uncompressed_bfr, compressed_bfr), offset -> byte
    comp_out,   \* gpu_inflate_status_s array, NoStatus (no entries) for a null pointer
    comp_in,    \* gpu_inflate_input_s array, NoStatus for a null pointer
    done,       \* the kernels that have run: a set of <<kernel, block index>>
    fragIn,     \* gpuInitPageFragments: the launch arguments and the block's blockIdx.y
    fragSt,     \* gpuInitPageFragments: frag_init_state_s and the block's position
    fragOut     \* gpuInitPageFragments: dict_index, dict_data and the PageFragment written

rleVars == <<rin, s, mem, memFill, rcalls, rlast, bar>>
pageVars == <<col, chunks, pages, bfr, ckbfr, comp_out, comp_in, done>>
fragVars == <<fragIn, fragSt, fragOut>>

vars == <<rin, s, mem, memFill, rcalls, rlast, bar, col, chunks, pages, bfr, ckbfr, comp_out, comp_in,
          done,
          fragIn, fragSt, fragOut>>

\* values of the variables a specification does not use
Idle == "idle"
RleIdle ==
    rin = Idle /\ s = Idle /\ mem = <<>> /\ rcalls = 0 /\ rlast = Idle /\ bar = Idle
PageIdle ==
    col = Idle /\ chunks = <<>> /\ pages = <<>> /\ bfr = <<>> /\ ckbfr = <<>> /\ comp_out = Idle
    /\ comp_in = Idle /\ done = {}
FragIdle == fragIn = Idle /\ fragSt = Idle /\ fragOut = Idle

---------------------------------------------------------------------------
(* Integer helpers standing for the C operators on uint32_t.               *)

Min(a, b) == IF a < b THEN a ELSE b
Max(a, b) == IF a > b THEN a ELSE b

Pow2(n) == 2 ^ n

\* v >> k and (v << k) on naturals
Shr(v, k) == v \div Pow2(k)
Shl(v, k) == v * Pow2(k)

\* bit i of v
BitOf(v, i) == (v \div Pow2(i)) % 2

\* a | b on naturals
RECURSIVE BitOr(_, _)
BitOr(a, b) ==
    IF a = 0 THEN b
    ELSE IF b = 0 THEN a
    ELSE (IF a % 2 = 1 \/ b % 2 = 1 THEN 1 ELSE 0) + 2 * BitOr(a \div 2, b \div 2)

\* (uint8_t) v
U8(v) == v % 256

RECURSIVE SumTo(_, _)
\* f[0] + ... + f[n-1]
SumTo(f, n) == IF n = 0 THEN 0 ELSE f[n - 1] + SumTo(f, n - 1)

---------------------------------------------------------------------------
(* Constants of the encoder.                                               *)

LOG2_RLE_BFRSZ == 9
RLE_BFRSZ == 512
EncodeThreads == 128

\* kRleRunMask[nbits-1] is a mask of this many low one-bits
kRleRunBits == <<24, 12, 8, 6, 4, 4, 3, 3, 2, 2, 2, 2, 1, 1, 1, 1>>

---------------------------------------------------------------------------
(* VlqEncode: the bytes of v, 7 bits per byte, low bits first.             *)

RECURSIVE VlqEncode(_)
VlqEncode(v) == IF v > 127 THEN <<U8(BitOr(v % 128, 128))>> \o VlqEncode(v \div 128)
                ELSE <<v>>

\* mem with the bytes bs stored from offset p on; an entry -1 of bs stores nothing
Store(m, p, bs) ==
    [i \in (DOMAIN m) \cup {p + k - 1 : k \in {j \in 1..Len(bs) : bs[j] >= 0}} |->
        IF i >= p /\ i < p + Len(bs) /\ bs[i - p + 1] >= 0 THEN bs[i - p + 1] ELSE m[i]]

\* t ^ k for k a power of two
LaneXor(t, k) == IF (t \div k) % 2 = 0 THEN t + k ELSE t - k

\* SHFL_XOR / the lane's own v: lanes past the block hold 0
LaneVal(v, i) == IF i < 128 THEN v[i] ELSE 0

\* lane t's v after the shuffles of PackLiterals for w <= 1, w <= 2, w < 8 and 12 <= w < 16
Pack1(v, t) ==
    LET a(i) == BitOr(LaneVal(v, i), Shl(LaneVal(v, LaneXor(i, 1)), 1))
        b(i) == BitOr(a(i), Shl(a(LaneXor(i, 2)), 2))
    IN  BitOr(b(t), Shl(b(LaneXor(t, 4)), 4))
Pack2(v, t) ==
    LET a(i) == BitOr(LaneVal(v, i), Shl(LaneVal(v, LaneXor(i, 1)), 2))
    IN  BitOr(a(t), Shl(a(LaneXor(t, 2)), 4))
Pack4(v, t) == BitOr(Shl(LaneVal(v, t), 4), LaneVal(v, LaneXor(t, 1)) % 16)
Pack12(v, t) == BitOr(LaneVal(v, t), Shl(LaneVal(v, LaneXor(t, 1)), 12))

\* the highest lane of a set (-1 for none)
TopLane(c) == IF c = {} THEN -1 ELSE CHOOSE t \in c : \A u \in c : u <= t

(***************************************************************************)
(* PackLiterals(dst, v, count, w, t) for the 128 lanes of the block: lane  *)
(* t holds v[t] and the lanes t < count store the packed bytes.  The       *)
(* result is the sequence of bytes stored at dst, dst + 1, ...; -1 marks   *)
(* an offset no lane stores to.  (For w = 3 several lanes store to one     *)
(* offset; the harness feeds no such width.)                               *)
(***************************************************************************)
PackLiterals(v, count, w) ==
    LET n == Min(count, 128)
    IN  IF n = 0 THEN <<>>
        ELSE IF w <= 1 THEN [j \in 1..((n + 7) \div 8) |-> U8(Pack1(v, 8 * (j - 1)))]
        ELSE IF w <= 2 THEN [j \in 1..((n + 3) \div 4) |-> U8(Pack2(v, 4 * (j - 1)))]
        ELSE IF w < 8 THEN
            [j \in 1..((((n - 1) \div 2) * 2 * w) \div 8 + 1) |->
                IF TopLane({t \in 0..(n - 1) : t % 2 = 0 /\ (t * w) \div 8 = j - 1}) < 0 THEN -1
                ELSE U8(Pack4(v, TopLane({t \in 0..(n - 1) : t % 2 = 0 /\ (t * w) \div 8 = j - 1})))]
        ELSE IF w < 12 THEN [j \in 1..n |-> U8(LaneVal(v, j - 1))]
        ELSE IF w < 16 THEN
            [j \in 1..(3 * ((n + 1) \div 2)) |->
                U8(Shr(Pack12(v, 2 * ((j - 1) \div 3)), 8 * ((j - 1) % 3)))]
        ELSE [j \in 1..(2 * n) |-> U8(Shr(LaneVal(v, (j - 1) \div 2), 8 * ((j - 1) % 2)))]

---------------------------------------------------------------------------
(***************************************************************************)
(* RleEncode.  The loop works on the local copies rle_pos and rle_run and  *)
(* on the shared fields run_val, rle_out, rle_lit_count and rle_rpt_count; *)
(* a loop state l is the record of those, the output bytes and brk (the    *)
(* loop was left by a break).  One pass of the loop is RleIter; it is      *)
(* written as a chain of operators, one per section of the loop body, each *)
(* handing the values it computed to the next.                             *)
(***************************************************************************)

\* s->vals[pos & (RLE_BFRSZ-1)]
RingAt(vals, pos) == vals[pos % RLE_BFRSZ]

\* rpt_map as one function over the 128 lanes: lane t's ballot bit
RptMap(vals, rle_pos, numvals) ==
    [t \in 0..(EncodeThreads - 1) |->
        (rle_pos + t + 1 < numvals) /\ RingAt(vals, rle_pos + t) = RingAt(vals, rle_pos + t + 1)]

\* the lowest position >= from whose ballot bit is clear; bits past the 4 words read as 0
FirstClear(map, from) ==
    IF \A i \in from..(EncodeThreads - 1) : map[i] THEN EncodeThreads
    ELSE CHOOSE i \in from..(EncodeThreads - 1) : ~map[i] /\ \A j \in from..(i - 1) : map[j]

\* __ffs(~rpt_map[last_idx]) counted from bit 0 of word 0: the first clear bit is bit z
FfsClear(z) == z + 1

\* rpt_count++ of lane 0 inside a repeat run
RptCountBump(rpt_count, rle_pos, numvals, flush) ==
    IF rpt_count # 0 /\ ((flush /\ rle_pos + rpt_count + 1 = numvals)
                          \/ rpt_count < Min(numvals - rle_pos, 128))
    THEN rpt_count + 1 ELSE rpt_count

\* lane 0 inside a repeat run: the run's extension
RptCountInRun(map, rle_pos, numvals, flush) ==
    RptCountBump(IF FirstClear(map, 0) < EncodeThreads THEN FfsClear(FirstClear(map, 0))
                 ELSE EncodeThreads,
                 rle_pos, numvals, flush)

RECURSIVE RunStartFrom(_, _, _)
\* the first lane t >= from of lanes 0..15 whose 8-aligned window holds need set bits, or 16
RunStartFrom(map, need, from) ==
    IF from >= 16 THEN 16
    ELSE IF \A i \in 0..(need - 1) : (8 * from + i < EncodeThreads) /\ map[8 * from + i] THEN from
    ELSE RunStartFrom(map, need, from + 1)

\* the alignment of a run start, in values
RunAlign == 8

\* run starts at any offset: the first position whose window holds the needed set bits
RunStartAnywhere(map, n, nbits) ==
    IF \A p \in 0..(EncodeThreads - 1) :
          \E i \in 0..(kRleRunBits[nbits] - 1) : p + i >= EncodeThreads \/ ~map[p + i]
    THEN n
    ELSE Min(CHOOSE p \in 0..(EncodeThreads - 1) :
                 /\ \A i \in 0..(kRleRunBits[nbits] - 1) : p + i < EncodeThreads /\ map[p + i]
                 /\ \A q \in 0..(p - 1) :
                       \E i \in 0..(kRleRunBits[nbits] - 1) : q + i >= EncodeThreads \/ ~map[q + i],
             n)

\* lanes 0..31 outside a repeat run: the offset (a multiple of 8 values) where a run may start
RunStart(map, n, nbits) ==
    IF RunStartFrom(map, kRleRunBits[nbits], 0) = 16 THEN n
    ELSE Min(RunAlign * RunStartFrom(map, kRleRunBits[nbits], 0), n)

\* lane 0: the length of the run of set ballot bits from rle_run_start on
RptLen(map, start, n) ==
    IF start < n THEN FirstClear(map, start) - start ELSE 0

\* lines 564-610: what lane 0 publishes in rle_lit_count and rle_rpt_count
RleDecideNew(map, n, start) ==
    [lit |-> start, rpt |-> Min(RptLen(map, start, n), n - start)]

RleDecide(map, l, numvals, nbits, flush) ==
    IF l.rle_run > 0 /\ l.rle_run % 2 = 0
    THEN [lit |-> 0, rpt |-> RptCountInRun(map, l.rle_pos, numvals, flush)]
    ELSE RleDecideNew(map, numvals - l.rle_pos, RunStart(map, numvals - l.rle_pos, nbits))

\* the bytes of a repeat run: VlqEncode(rle_run), run_val, and run_val >> 8 past 8 bits
RunBytes(rle_run, run_val, nbits) ==
    VlqEncode(rle_run) \o <<U8(run_val)>> \o (IF nbits > 8 THEN <<U8(Shr(run_val, 8))>> ELSE <<>>)

\* lines 624-636: output the repeat run and leave it
RleEmitRun(l, rle_run, rle_pos, nbits) ==
    [l EXCEPT !.rle_run = 0, !.rle_pos = rle_pos,
              !.mem = Store(l.mem, l.rle_out, RunBytes(rle_run, l.run_val, nbits)),
              !.rle_out = l.rle_out + Len(RunBytes(rle_run, l.run_val, nbits))]

\* lines 614-638: currently in a repeat run (d is lane 0's decision); the result carries
\* the local rle_rpt_count in rpt
RleRunPart(l, d, numvals, nbits, flush) ==
    IF l.rle_run # 0 /\ l.rle_run % 2 = 0 THEN
        IF d.lit = 0 THEN
            IF d.rpt = 0 \/ (flush /\ l.rle_pos + d.rpt = numvals)
            THEN [RleEmitRun(l, l.rle_run + d.rpt * 2, l.rle_pos + d.rpt, nbits) EXCEPT !.rpt = 0]
            ELSE [l EXCEPT !.rle_run = l.rle_run + d.rpt * 2, !.rle_pos = l.rle_pos + d.rpt, !.rpt = 0]
        ELSE [RleEmitRun(l, l.rle_run, l.rle_pos, nbits) EXCEPT !.rpt = d.rpt]
    ELSE [l EXCEPT !.rpt = d.rpt]

\* a call that holds back all the literals at the end of the input
RleWithholdAll(lit) == lit

\* the values a non-flushing call holds back at the end of the input
RleWithhold(lit) == Min(lit, 24)

\* "dst += nbits * (rle_run >> 1)" after the header byte of a literal run is stored
LitRunAdvance(nbits, rle_run) == nbits * (rle_run \div 2)

\* the largest header of a literal run: 63 groups of 8 values
MaxLitRun == 127

\* (rle_run + lit_div8 * 2) | 1
LitRunOf(rle_run, lit_div8) ==
    IF (rle_run + lit_div8 * 2) % 2 = 1 THEN rle_run + lit_div8 * 2 ELSE rle_run + lit_div8 * 2 + 1

\* the lanes' v0 handed to PackLiterals: (rle_pos + t < numvals) ? v0 : 0
LitLanes(vals, pos0, rle_pos, numvals) ==
    [t \in 0..(EncodeThreads - 1) |->
        IF rle_pos + t < numvals THEN RingAt(vals, pos0 + t) ELSE 0]

\* lines 654-659: pack lit_div8 groups behind the open literal run
RlePack(vals, pos0, l, lit_div8, numvals, nbits) ==
    IF lit_div8 # 0
    THEN [l EXCEPT !.mem = Store(l.mem, l.rle_out + 1 + (l.rle_run \div 2) * nbits,
                                 PackLiterals(LitLanes(vals, pos0, l.rle_pos, numvals),
                                              lit_div8 * 8, nbits)),
                   !.rle_run = LitRunOf(l.rle_run, lit_div8),
                   !.rle_pos = Min(l.rle_pos + lit_div8 * 8, numvals),
                   !.packs = Append(@, <<l.rle_pos, Min(l.rle_pos + lit_div8 * 8, numvals)>>)]
    ELSE l

\* lines 649-653: the number of groups, capped to what the one-byte header still holds
RleLitGroups(vals, pos0, l, lit_div8, numvals, nbits) ==
    IF l.rle_run + lit_div8 * 2 > MaxLitRun
    THEN RlePack(vals, pos0, [l EXCEPT !.rpt = 0], 63 - (l.rle_run \div 2), numvals, nbits)
    ELSE RlePack(vals, pos0, l, lit_div8, numvals, nbits)

\* lines 661-671: complete the literal run
RleLitClose(l, numvals, nbits, flush) ==
    IF l.rle_run >= (IF l.rpt # 0 \/ (flush /\ l.rle_pos = numvals) THEN 3 ELSE MaxLitRun)
    THEN [l EXCEPT !.mem = Store(l.mem, l.rle_out, <<U8(l.rle_run)>>),
                   !.rle_out = l.rle_out + LitRunAdvance(nbits, l.rle_run),
                   !.rle_run = 0,
                   !.lits = Append(@, <<l.rle_out, l.rle_run,
                                        l.rle_out + LitRunAdvance(nbits, l.rle_run)>>)]
    ELSE l

\* lines 648-660 for the literal count lit left after withholding
RleLitPack(vals, pos0, l, lit, numvals, nbits, flush) ==
    IF lit # 0
    THEN RleLitGroups(vals, pos0, l,
                      (lit + (IF flush /\ l.rle_pos + lit = numvals THEN 7 ELSE 0)) \div 8,
                      numvals, nbits)
    ELSE l

\* lines 640-675: process literals; brk is set by "wait for more data"
RleLitPart(vals, pos0, l, lit, numvals, nbits, flush) ==
    IF lit # 0 \/ (l.rle_run # 0 /\ l.rpt # 0) THEN
        IF ~flush /\ l.rle_pos + lit = numvals
        THEN [RleLitClose(RleLitPack(vals, pos0, l, lit - RleWithhold(lit), numvals, nbits, flush),
                          numvals, nbits, flush) EXCEPT !.brk = TRUE]
        ELSE RleLitClose(RleLitPack(vals, pos0, l, lit, numvals, nbits, flush), numvals, nbits, flush)
    ELSE l

\* lines 683-701: the run reaches the last value but one
RleRptEnd(l, numvals, nbits, flush) ==
    IF l.rle_pos + 1 = numvals THEN
        IF flush
        THEN [l EXCEPT !.mem = Store(l.mem, l.rle_out, RunBytes(l.rle_run + 2, l.run_val, nbits)),
                       !.rle_out = l.rle_out + Len(RunBytes(l.rle_run + 2, l.run_val, nbits)),
                       !.rle_run = 0, !.rle_pos = l.rle_pos + 1, !.brk = TRUE]
        ELSE [l EXCEPT !.brk = TRUE]
    ELSE l

\* lines 677-702: process the repeat run; s_lit is the shared rle_lit_count
RleRptPart(vals, pos0, l, s_lit, numvals, nbits, flush) ==
    IF ~l.brk /\ l.rpt # 0
    THEN RleRptEnd([l EXCEPT !.run_val = IF s_lit < EncodeThreads THEN RingAt(vals, pos0 + s_lit)
                                         ELSE l.run_val,
                             !.rle_run = l.rpt * 2,
                             !.rle_pos = l.rle_pos + l.rpt,
                             !.rpts = Append(@, <<pos0, s_lit, l.rpt>>)],
                   numvals, nbits, flush)
    ELSE l

\* lines 612-703 with lane 0's decision d published in the shared fields
RleIterD(vals, l, d, numvals, nbits, flush) ==
    RleRptPart(vals, l.rle_pos,
               RleLitPart(vals, l.rle_pos,
                          RleRunPart([l EXCEPT !.rle_lit_count = d.lit, !.rle_rpt_count = d.rpt],
                                     d, numvals, nbits, flush),
                          d.lit, numvals, nbits, flush),
               d.lit, numvals, nbits, flush)

\* One pass of the while loop of RleEncode.
RleIter(vals, l, numvals, nbits, flush) ==
    RleIterD(vals, l, RleDecide(RptMap(vals, l.rle_pos, numvals), l, numvals, nbits, flush),
             numvals, nbits, flush)

RECURSIVE RleLoop(_, _, _, _, _)
RleLoop(vals, l, numvals, nbits, flush) ==
    IF l.rle_pos < numvals /\ ~l.brk
    THEN RleLoop(vals, RleIter(vals, l, numvals, nbits, flush), numvals, nbits, flush)
    ELSE l

\* lines 705-709: lane 0 stores the local copies back
RleStoreBack(st, l, numvals) ==
    [st |-> [st EXCEPT !.rle_pos = l.rle_pos, !.rle_run = l.rle_run, !.run_val = l.run_val,
                       !.rle_out = l.rle_out, !.rle_lit_count = l.rle_lit_count,
                       !.rle_rpt_count = l.rle_rpt_count, !.rle_numvals = numvals],
     mem |-> l.mem]

\* the locals and shared fields when the loop of the call is left.  lits, packs and rpts
\* list what the call did: the literal runs it completed (where the header byte went, the
\* header, rle_out behind the run), the input positions of the literal groups it packed
\* (first, one past the last) and the repeat runs it started (the cursor, the offset of the
\* run from the cursor, the length)
RleLocals(st, m, numvals, nbits, flush) ==
    RleLoop(st.vals,
            [rle_pos |-> st.rle_pos, rle_run |-> st.rle_run, run_val |-> st.run_val,
             rle_out |-> st.rle_out, rle_lit_count |-> st.rle_lit_count,
             rle_rpt_count |-> st.rle_rpt_count, mem |-> m, brk |-> FALSE, rpt |-> 0,
             lits |-> <<>>, packs |-> <<>>, rpts |-> <<>>],
            numvals, nbits, flush)

(***************************************************************************)
(* RleEncode(s, numvals, nbits, flush, t) for the whole block: the encoder *)
(* state st and the output bytes m after the call.                         *)
(***************************************************************************)
RleEncode(st, m, numvals, nbits, flush) ==
    RleStoreBack(st, RleLocals(st, m, numvals, nbits, flush), numvals)

---------------------------------------------------------------------------
(***************************************************************************)
(* The column.  col is an EncColumnDesc: physical_type, level_bits,        *)
(* num_rows, valid_map_base (NullPtr or a bitmap) and column_data_base;    *)
(* the bitmap and the data are given by the patterns vpat and dpat.  The   *)
(* model's columns are of the fixed-width types BOOLEAN, INT32 and INT64.  *)
(***************************************************************************)
NullPtr == "nullptr"

\* (valid[row >> 5] >> (row & 0x1f)) & 1
ValidBit(c, row) ==
    CASE c.vpat = "all"  -> 1
      [] c.vpat = "none" -> 0
      [] c.vpat = "alt"  -> row % 2
      [] c.vpat = "tail" -> IF row < 2 THEN 0 ELSE 1

\* (row < col.num_rows) ? (valid) ? (valid[row >> 5] >> (row & 0x1f)) & 1 : 1 : 0
IsValid(c, row) ==
    IF row < c.num_rows
    THEN (IF c.valid_map_base # NullPtr THEN ValidBit(c, row) ELSE 1)
    ELSE 0

\* column_data_base[row]
ColumnData(c, row) ==
    CASE c.dpat = "mod3"   -> row % 3
      [] c.dpat = "same"   -> 7
      [] c.dpat = "bucket" -> 4096 * (row % 3) + 5
      [] c.dpat = "down"   -> 2 - (row % 3)
      [] c.dpat = "bool"   -> (row \div 3) % 2

\* dtype_len = (dtype == INT64 || dtype == DOUBLE) ? 8 : (dtype == BOOLEAN) ? 1 : 4
DtypeLen(dtype) ==
    IF dtype = "INT64" \/ dtype = "DOUBLE" THEN 8 ELSE IF dtype = "BOOLEAN" THEN 1 ELSE 4

\* the number of valid rows among rows row0 .. row0 + n - 1
ValidCount(c, row0, n) == Cardinality({r \in row0..(row0 + n - 1) : IsValid(c, r) = 1})

\* s->frag.num_rows of the block with blockIdx.y = y
FragNumRows(fragment_size, max_num_rows, start_row) ==
    Min(fragment_size, max_num_rows - Min(start_row, max_num_rows))

(***************************************************************************)
(* The PageFragment that gpuInitPageFragments writes for the rows from     *)
(* start_row on, as far as the page planner reads it: num_rows, non_nulls  *)
(* and fragment_data_size, the summed len of the valid rows.               *)
(***************************************************************************)
FragmentOf(c, fragment_size, start_row) ==
    [num_rows |-> FragNumRows(fragment_size, c.num_rows, start_row),
     non_nulls |-> ValidCount(c, start_row, FragNumRows(fragment_size, c.num_rows, start_row)),
     fragment_data_size |->
         DtypeLen(c.physical_type)
             * ValidCount(c, start_row, FragNumRows(fragment_size, c.num_rows, start_row))]

---------------------------------------------------------------------------
(***************************************************************************)
(* gpuInitPages: one block per chunk.  Lanes 0..31 walk the chunk's        *)
(* fragments with the same locals; lane 0 fills page_g and the page is     *)
(* copied to pages[first_page + num_pages].  A loop state l is the record  *)
(* of the locals, frag_g and the pages emitted so far.                     *)
(***************************************************************************)

\* page_g.max_hdr_size
MaxHdrSize == 32

\* a planner whose page size thresholds are bytes where the code has kilobytes
MaxPageSizeBytes(rows_in_page, ck_num_rows) ==
    IF rows_in_page * 2 >= ck_num_rows THEN 256
    ELSE IF rows_in_page * 3 >= ck_num_rows THEN 384
    ELSE 512

\* max_page_size of line 427
MaxPageSize(rows_in_page, ck_num_rows) ==
    IF rows_in_page * 2 >= ck_num_rows THEN 256 * 1024
    ELSE IF rows_in_page * 3 >= ck_num_rows THEN 384 * 1024
    ELSE 512 * 1024

\* def_level_size of line 432
DefLevelSize(level_bits, rows_in_page) ==
    IF level_bits % 16 # 0 THEN 4 + 5 + ((level_bits % 16) * rows_in_page + 7) \div 8 ELSE 0

\* a planner that takes a fragment without data for the end of the fragments
PlanFragSized(ck, l) ==
    IF l.num_rows < ck.num_rows
    THEN [fragment_data_size |-> ck.fragments[l.fragments_in_chunk + 1].fragment_data_size,
          num_rows |-> IF ck.fragments[l.fragments_in_chunk + 1].fragment_data_size = 0 THEN 0
                       ELSE ck.fragments[l.fragments_in_chunk + 1].num_rows]
    ELSE [fragment_data_size |-> 0, num_rows |-> 0]

\* lines 417-425: frag_g for this pass of the loop
PlanFrag(ck, l) ==
    IF l.num_rows < ck.num_rows
    THEN [fragment_data_size |-> ck.fragments[l.fragments_in_chunk + 1].fragment_data_size,
          num_rows |-> ck.fragments[l.fragments_in_chunk + 1].num_rows]
    ELSE [fragment_data_size |-> 0, num_rows |-> 0]

\* GetMaxCompressedBfrSize: the compressor's upper bound for uncomp_size bytes of input
GetMaxCompressedBfrSize(uncomp_size) == 32 + uncomp_size + uncomp_size \div 6

\* lines 430-446: the page lane 0 leaves in page_g
PlanPage(ck, chunk_id, level_bits, l) ==
    [num_fragments |-> l.fragments_in_chunk - l.page_start,
     chunk_id |-> chunk_id,
     page_type |-> "DATA_PAGE",
     hdr_size |-> 0,
     max_hdr_size |-> MaxHdrSize,
     max_data_size |-> l.page_size + DefLevelSize(level_bits, l.rows_in_page),
     page_data |-> l.page_offset,
     compressed_data |-> l.comp_page_offset,
     start_row |-> l.cur_row,
     num_rows |-> l.rows_in_page]

\* a planner that closes a page without moving cur_row on
PlanEmitSameRow(ck, chunk_id, level_bits, l) ==
    [l EXCEPT !.pages = IF l.pages_arg
                        THEN Append(l.pages, PlanPage(ck, chunk_id, level_bits, l))
                        ELSE l.pages,
              !.page_offset = l.page_offset + MaxHdrSize
                                + l.page_size + DefLevelSize(level_bits, l.rows_in_page),
              !.comp_page_offset =
                  l.comp_page_offset + MaxHdrSize
                    + GetMaxCompressedBfrSize(l.page_size
                                                + DefLevelSize(level_bits, l.rows_in_page)),
              !.num_pages = l.num_pages + 1,
              !.page_size = 0,
              !.rows_in_page = 0,
              !.page_start = l.fragments_in_chunk]

\* a planner that counts a page only when it stores the page's record
PlanEmitStored(ck, chunk_id, level_bits, l) ==
    [l EXCEPT !.pages = IF l.pages_arg
                        THEN Append(l.pages, PlanPage(ck, chunk_id, level_bits, l))
                        ELSE l.pages,
              !.page_offset = l.page_offset + MaxHdrSize
                                + l.page_size + DefLevelSize(level_bits, l.rows_in_page),
              !.comp_page_offset =
                  l.comp_page_offset + MaxHdrSize
                    + GetMaxCompressedBfrSize(l.page_size
                                                + DefLevelSize(level_bits, l.rows_in_page)),
              !.cur_row = l.cur_row + l.rows_in_page,
              !.num_pages = IF l.pages_arg THEN l.num_pages + 1 ELSE l.num_pages,
              !.page_size = 0,
              !.rows_in_page = 0,
              !.page_start = l.fragments_in_chunk]

\* a planner that gives a page a compressed slot of the size of its uncompressed one
PlanEmitPacked(ck, chunk_id, level_bits, l) ==
    [l EXCEPT !.pages = IF l.pages_arg
                        THEN Append(l.pages, PlanPage(ck, chunk_id, level_bits, l))
                        ELSE l.pages,
              !.page_offset = l.page_offset + MaxHdrSize
                                + l.page_size + DefLevelSize(level_bits, l.rows_in_page),
              !.comp_page_offset =
                  l.comp_page_offset + MaxHdrSize
                    + l.page_size + DefLevelSize(level_bits, l.rows_in_page),
              !.cur_row = l.cur_row + l.rows_in_page,
              !.num_pages = l.num_pages + 1,
              !.page_size = 0,
              !.rows_in_page = 0,
              !.page_start = l.fragments_in_chunk]

\* lines 428-455: close the page; the record is stored in the page array when the
\* kernel was given one (pages_arg, line 448)
PlanEmit(ck, chunk_id, level_bits, l) ==
    [l EXCEPT !.pages = IF l.pages_arg
                        THEN Append(l.pages, PlanPage(ck, chunk_id, level_bits, l))
                        ELSE l.pages,
              !.page_offset = l.page_offset + MaxHdrSize
                                + l.page_size + DefLevelSize(level_bits, l.rows_in_page),
              !.comp_page_offset =
                  l.comp_page_offset + MaxHdrSize
                    + GetMaxCompressedBfrSize(l.page_size
                                                + DefLevelSize(level_bits, l.rows_in_page)),
              !.cur_row = l.cur_row + l.rows_in_page,
              !.num_pages = l.num_pages + 1,
              !.page_size = 0,
              !.rows_in_page = 0,
              !.page_start = l.fragments_in_chunk]

\* lines 456-459: add the fragment to the open page
PlanAdd(l, frag) ==
    [l EXCEPT !.page_size = l.page_size + frag.fragment_data_size,
              !.rows_in_page = l.rows_in_page + frag.num_rows,
              !.num_rows = l.num_rows + frag.num_rows,
              !.fragments_in_chunk = l.fragments_in_chunk + 1,
              !.frag_num_rows = frag.num_rows]

\* one pass of the do-while loop
PlanIter(ck, chunk_id, level_bits, l, frag) ==
    IF l.num_rows >= ck.num_rows
       \/ l.page_size + frag.fragment_data_size > MaxPageSize(l.rows_in_page, ck.num_rows)
    THEN PlanAdd(PlanEmit(ck, chunk_id, level_bits, l), frag)
    ELSE PlanAdd(l, frag)

RECURSIVE PlanLoop(_, _, _, _)
PlanLoop(ck, chunk_id, level_bits, l) ==
    IF l.frag_num_rows # 0
    THEN PlanLoop(ck, chunk_id, level_bits, PlanIter(ck, chunk_id, level_bits, l, PlanFrag(ck, l)))
    ELSE l

\* the locals of lines 404-412
PlanLocals(ck, pages_arg) ==
    [fragments_in_chunk |-> 0, rows_in_page |-> 0, page_size |-> 0, num_pages |-> 0,
     num_rows |-> 0, page_start |-> 0, page_offset |-> 0, comp_page_offset |-> 0,
     cur_row |-> ck.start_row, frag_num_rows |-> 0, pages |-> <<>>, pages_arg |-> pages_arg]

\* the loop's result for a chunk: the do-while body runs at least once.  pages_arg says
\* whether the kernel's pages argument is a page array (TRUE) or null (FALSE); l.pages
\* are the records stored from pages[first_page] on.
gpuInitPages(ck, chunk_id, level_bits, pages_arg) ==
    PlanLoop(ck, chunk_id, level_bits,
             PlanIter(ck, chunk_id, level_bits, PlanLocals(ck, pages_arg),
                      PlanFrag(ck, PlanLocals(ck, pages_arg))))

\* the page array with the pages ps stored from index first on (index 0 is pages[0])
PutPages(pgs, first, ps) ==
    [i \in (DOMAIN pgs) \cup {first + k - 1 : k \in 1..Len(ps)} |->
        IF i >= first /\ i < first + Len(ps) THEN ps[i - first + 1] ELSE pgs[i]]

\* lines 461-470: the chunk written back
PlanChunk(ck, l) ==
    [ck EXCEPT !.num_pages = l.num_pages, !.bfr_size = l.page_offset,
               !.compressed_size = l.comp_page_offset]

---------------------------------------------------------------------------
(***************************************************************************)
(* gpuEncodePages: one block of 128 lanes per page.  x is the record of    *)
(* the shared state st (page_enc_state_s, with cur and rle_out as offsets  *)
(* from page_data) and the bytes mem of the page buffer.  Column values    *)
(* are below 2^31.                                                         *)
(***************************************************************************)

\* byte k of the little-endian image of v
ByteOf(v, k) == IF k < 4 THEN U8(Shr(v, 8 * k)) ELSE 0

\* the n bytes of v, low byte first
LEBytes(v, n) == [k \in 1..n |-> ByteOf(v, k - 1)]

\* line 756: every lane t stores its def_lvl at vals[(rle_numvals + t) & (RLE_BFRSZ-1)]
DefLevelStore(vals, c, row0, base) ==
    [i \in 0..(RLE_BFRSZ - 1) |->
        IF (i - base) % RLE_BFRSZ < EncodeThreads
        THEN IsValid(c, row0 + ((i - base) % RLE_BFRSZ))
        ELSE vals[i]]

\* line 753
DefBatch(pg, st) ==
    Min(pg.num_rows - st.rle_numvals, RLE_BFRSZ - (st.rle_numvals - st.rle_pos))

\* lines 752-760: one pass of the definition level loop
EncDefIter(x, pg, c, nrows) ==
    RleEncode([x.st EXCEPT !.vals = DefLevelStore(x.st.vals, c, pg.start_row + x.st.rle_numvals,
                                                  x.st.rle_numvals)],
              x.mem, x.st.rle_numvals + nrows, c.level_bits % 16,
              x.st.rle_numvals + nrows = pg.num_rows)

RECURSIVE EncDefLoop(_, _, _)
EncDefLoop(x, pg, c) ==
    IF x.st.rle_numvals < pg.num_rows
    THEN EncDefLoop(EncDefIter(x, pg, c, DefBatch(pg, x.st)), pg, c)
    ELSE x

\* lines 762-773: the length word in front of the levels, and cur moves behind them
EncDefClose(x) ==
    [st |-> [x.st EXCEPT !.cur = x.st.rle_out],
     mem |-> Store(x.mem, x.st.cur, LEBytes(x.st.rle_out - x.st.cur, 4))]

\* lines 739-775: encode NULLs
EncDefLevels(x, pg, c) ==
    IF pg.page_type # "DICTIONARY_PAGE" /\ c.level_bits # 0 /\ c.level_bits % 16 # 0
    THEN EncDefClose(EncDefLoop([x EXCEPT !.st.rle_run = 0, !.st.rle_pos = 0,
                                          !.st.rle_numvals = 0, !.st.rle_out = x.st.cur + 4],
                                pg, c))
    ELSE x

\* dict_bits = (dtype == BOOLEAN) ? 1 : 0
DictBits(dtype) == IF dtype = "BOOLEAN" THEN 1 ELSE 0

RECURSIVE ValidVals(_, _, _)
\* the values v of the valid lanes among lanes row .. row + n - 1 of a batch, in lane order
ValidVals(c, row, n) ==
    IF n = 1 THEN (IF IsValid(c, row) = 1 THEN <<U8(ColumnData(c, row))>> ELSE <<>>)
    ELSE ValidVals(c, row, n \div 2) \o ValidVals(c, row + n \div 2, n - n \div 2)

\* lines 825-827: the valid lane of rank pos stores v at vals[(rle_numvals + pos) & (RLE_BFRSZ-1)]
DictStore(vals, base, vs) ==
    [i \in 0..(RLE_BFRSZ - 1) |->
        IF (i - base) % RLE_BFRSZ < Len(vs) THEN vs[((i - base) % RLE_BFRSZ) + 1] ELSE vals[i]]

\* lines 811-829: a batch of a dictionary (boolean) page; rle_numvals is the new value count
EncDictIter(x, c, row0, rle_numvals, flush) ==
    RleEncode([x.st EXCEPT !.vals = DictStore(x.st.vals, rle_numvals, ValidVals(c, row0, EncodeThreads))],
              x.mem, rle_numvals, DictBits(c.physical_type), flush)

RECURSIVE PlainBytes(_, _, _)
\* lines 835-891: the bytes the valid lanes among lanes row .. row + n - 1 store, in lane order
PlainBytes(c, row, n) ==
    IF n = 1
    THEN (IF IsValid(c, row) = 1
          THEN LEBytes(ColumnData(c, row), DtypeLen(c.physical_type))
          ELSE <<>>)
    ELSE PlainBytes(c, row, n \div 2) \o PlainBytes(c, row + n \div 2, n - n \div 2)

\* a batch of a plain page: the lanes' bytes go behind cur and cur moves by scratch_red[3]
EncPlainPut(x, bytes) ==
    [st |-> [x.st EXCEPT !.cur = x.st.cur + Len(bytes)],
     mem |-> Store(x.mem, x.st.cur, bytes)]

\* lines 801-893: the batch of the lanes' rows start_row + cur_row + t
EncValIter(x, pg, c, cur_row, nrows) ==
    IF DictBits(c.physical_type) # 0
    THEN EncDictIter(x, c, pg.start_row + cur_row,
                     x.st.rle_numvals + ValidCount(c, pg.start_row + cur_row, EncodeThreads),
                     cur_row + nrows = pg.num_rows)
    ELSE EncPlainPut(x, PlainBytes(c, pg.start_row + cur_row, EncodeThreads))

RECURSIVE EncValLoop(_, _, _, _)
\* line 800: for (cur_row = 0; cur_row < s->page.num_rows; )
EncValLoop(x, pg, c, cur_row) ==
    IF cur_row < pg.num_rows
    THEN EncValLoop(EncValIter(x, pg, c, cur_row, Min(pg.num_rows - cur_row, 128)),
                    pg, c, cur_row + Min(pg.num_rows - cur_row, 128))
    ELSE x

\* lines 788-799: lane 0 resets the run state for the values
EncValues(x, pg, c) ==
    EncValLoop([x EXCEPT !.st.rle_run = 0, !.st.rle_pos = 0, !.st.rle_numvals = 0,
                         !.st.rle_out = x.st.cur],
               pg, c, 0)

\* the shared state after lines 723-738; vals is not initialized
EncState(pg, fill) ==
    [vals |-> [i \in 0..(RLE_BFRSZ - 1) |-> fill],
     rle_pos |-> 0, rle_run |-> 0, run_val |-> 0, rle_numvals |-> 0,
     rle_out |-> 0, rle_lit_count |-> 0, rle_rpt_count |-> 0,
     cur |-> pg.max_hdr_size]

\* the block's result: the shared state and the page buffer at line 895
gpuEncodePages(pg, c, m, fill) ==
    EncValues(EncDefLevels([st |-> EncState(pg, fill), mem |-> m], pg, c), pg, c)

\* lines 895-899: actual_data_size
ActualDataSize(pg, st) == st.cur - pg.max_hdr_size

---------------------------------------------------------------------------
(***************************************************************************)
(* gpuDecideCompression: one block of 128 lanes per chunk.  Lane t sums    *)
(* the pages t .. num_pages - 1 and counts their errors in error_count;    *)
(* lane 0's sums decide.  co is the comp_out array or NoStatus.            *)
(***************************************************************************)
NoStatus == <<>>

RECURSIVE UncompressedSum(_, _, _)
\* lane 0's uncompressed_data_size after n passes of the loop of line 942
UncompressedSum(pgs, first_page, n) ==
    IF n = 0 THEN 0
    ELSE UncompressedSum(pgs, first_page, n - 1) + pgs[first_page + n - 1].max_data_size

RECURSIVE CompressedSum(_, _)
\* lane 0's compressed_data_size after n passes: comp_out[page].bytes_written
CompressedSum(co, n) ==
    IF n = 0 THEN 0 ELSE CompressedSum(co, n - 1) + co[n - 1].bytes_written

\* error_count after the loop: each lane t <= page adds 1 for a page with a non-zero status
ErrorCount(co, n) ==
    Cardinality({tp \in (0..(EncodeThreads - 1)) \X (0..(n - 1)) :
                    tp[1] <= tp[2] /\ co[tp[2]].status # 0})

\* lines 953-961
IsCompressed(ck, pgs, co) ==
    IF co # NoStatus
    THEN ErrorCount(co, ck.num_pages) = 0
         /\ CompressedSum(co, ck.num_pages) < UncompressedSum(pgs, ck.first_page, ck.num_pages)
    ELSE FALSE

\* lines 962-964: the chunk after the kernel
gpuDecideCompression(ck, pgs, co) ==
    [ck EXCEPT !.is_compressed = IsCompressed(ck, pgs, co),
               !.bfr_size = UncompressedSum(pgs, ck.first_page, ck.num_pages),
               !.compressed_size =
                   IF IsCompressed(ck, pgs, co) THEN CompressedSum(co, ck.num_pages)
                   ELSE UncompressedSum(pgs, ck.first_page, ck.num_pages)]

---------------------------------------------------------------------------
(***************************************************************************)
(* The Thrift compact protocol writer and gpuEncodePageHeaders.            *)
(***************************************************************************)

\* field types of the compact protocol and enum values of the Parquet format
ST_FLD_I32 == 5
ST_FLD_STRUCT == 12
DATA_PAGE == 0
PLAIN == 0
RLE == 3

RECURSIVE cpw_put_uint32(_)
cpw_put_uint32(v) ==
    IF v > 127 THEN <<U8(BitOr(v % 128, 128))>> \o cpw_put_uint32(v \div 128) ELSE <<v>>

\* cpw_put_uint32((v ^ -s) * 2 + s) with s = (v < 0), neg here.  The argument is 2 * a + s as
\* a uint32_t, a = v ^ -s being v or -v - 1: its low seven bits are 2 * (a % 64) + s, it
\* is above 0x7f when a is above 63, and a >> 6 is what v >>= 7 leaves.
cpw_put_int32(v) ==
    LET neg == IF v < 0 THEN 1 ELSE 0
        a == IF v < 0 THEN -(v + 1) ELSE v
    IN  IF a > 63 THEN <<128 + 2 * (a % 64) + neg>> \o cpw_put_uint32(a \div 64)
        ELSE <<2 * a + neg>>

\* a field header that always takes the long form
cpw_put_fldhLong(f, cur, t) == <<t>> \o cpw_put_int32(f)

cpw_put_fldh(f, cur, t) ==
    IF f > cur /\ f <= cur + 15 THEN <<U8(BitOr(Shl(f - cur, 4), t))>>
    ELSE <<t>> \o cpw_put_int32(f)

\* CPW_FLD_INT32(f, v) with cur_fld = cur
CPW_FLD_INT32(f, cur, v) == cpw_put_fldh(f, cur, ST_FLD_I32) \o cpw_put_int32(v)

\* lines 1075-1097: the header of a page
PageHeader(page_type, uncompressed_page_size, compressed_page_size, num_rows) ==
    CPW_FLD_INT32(1, 0, page_type)
    \o CPW_FLD_INT32(2, 1, uncompressed_page_size)
    \o CPW_FLD_INT32(3, 2, compressed_page_size)
    \o (IF page_type = DATA_PAGE
        THEN cpw_put_fldh(5, 3, ST_FLD_STRUCT)
             \o CPW_FLD_INT32(1, 0, num_rows)
             \o CPW_FLD_INT32(2, 1, PLAIN)
             \o CPW_FLD_INT32(3, 2, RLE)
             \o CPW_FLD_INT32(4, 3, RLE)
             \o <<0>>
        ELSE cpw_put_fldh(7, 3, ST_FLD_STRUCT)
             \o CPW_FLD_INT32(1, 0, num_rows)
             \o CPW_FLD_INT32(2, 1, PLAIN)
             \o <<0>>)
    \o <<0>>

\* lines 1065-1074: compressed_page_size; b is blockIdx.x
CompressedPageSize(pg, ck, co, b) ==
    IF ck.is_compressed THEN co[b].bytes_written ELSE pg.max_data_size

\* the header gpuEncodePageHeaders writes at hdr_start: page_type is always DATA_PAGE
HeaderOf(pg, ck, co, b) ==
    PageHeader(DATA_PAGE, pg.max_data_size, CompressedPageSize(pg, ck, co, b), pg.num_rows)

\* lines 1069, 1098: the page written back
HeaderPage(pg, ck, co, b) ==
    [pg EXCEPT !.max_data_size = CompressedPageSize(pg, ck, co, b),
               !.hdr_size = Len(HeaderOf(pg, ck, co, b))]

---------------------------------------------------------------------------
(***************************************************************************)
(* A standard reader of the hybrid format: a varint header h; h odd is a   *)
(* literal run of h >> 1 groups of 8 values bit-packed low bits first, h   *)
(* even a repeat run of h >> 1 copies of a value of ceil(nbits / 8) bytes. *)
(* The stream is the bytes [0, len) of m.  ok is FALSE when the stream     *)
(* ends inside a run.                                                      *)
(***************************************************************************)
MemAt(m, i) == IF i \in DOMAIN m THEN m[i] ELSE memFill

RECURSIVE ReadVlq(_, _, _, _, _)
\* the varint at offset p: [v, next], next = -1 when the stream ends inside it
ReadVlq(m, len, p, shift, acc) ==
    IF p >= len THEN [v |-> acc, next |-> -1]
    ELSE LET b == MemAt(m, p)
             a == acc + Shl(b % 128, shift)
         IN  IF b >= 128 THEN ReadVlq(m, len, p + 1, shift + 7, a)
             ELSE [v |-> a, next |-> p + 1]

\* value k of the bit-packed group data that starts at offset d
UnpackAt(m, d, k, nbits) ==
    LET bit(b) == BitOf(MemAt(m, d + (b \div 8)), b % 8)
        f == [i \in 0..(nbits - 1) |-> bit(k * nbits + i) * Pow2(i)]
    IN  SumTo(f, nbits)

RECURSIVE RleDecode(_, _, _, _, _)
RleDecode(m, len, p, nbits, acc) ==
    IF p >= len THEN [ok |-> TRUE, vals |-> acc]
    ELSE LET h == ReadVlq(m, len, p, 0, 0)
             groups == h.v \div 2
             nb == (nbits + 7) \div 8
         IN  IF h.next < 0 THEN [ok |-> FALSE, vals |-> acc]
             ELSE IF h.v % 2 = 1 THEN
                 IF h.next + groups * nbits > len THEN [ok |-> FALSE, vals |-> acc]
                 ELSE RleDecode(m, len, h.next + groups * nbits, nbits,
                                acc \o [k \in 1..(groups * 8) |-> UnpackAt(m, h.next, k - 1, nbits)])
             ELSE
                 IF h.next + nb > len THEN [ok |-> FALSE, vals |-> acc]
                 ELSE LET v == MemAt(m, h.next) + (IF nb > 1 THEN 256 * MemAt(m, h.next + 1) ELSE 0)
                      IN  RleDecode(m, len, h.next + nb, nbits, acc \o [k \in 1..groups |-> v])

---------------------------------------------------------------------------
(***************************************************************************)
(* The RLE harness: a caller that owns a sequence of rin.total values of   *)
(* rin.nbits bits, stores them batch by batch into the ring s.vals and     *)
(* calls RleEncode after each batch, with flush on the last batch only     *)
(* (the calling pattern of the definition-level loop of gpuEncodePages).   *)
(***************************************************************************)

\* bounds of the harness
MaxRleTotal == 650
RleWidths == {1, 2, 4, 8, 12, 16}
RleTotals == {0, 1, 8, 34, 130, MaxRleTotal}
RleBatches == {128}
RlePatterns == {"same", "alt", "count", "run_lit", "lit_run"}
RingFills == {0, 65535}
MemFills == {0, 255}

\* value i of the input sequence
InVal(pat, nbits, i) ==
    LET top == Pow2(nbits) - 1
    IN  CASE pat = "same"    -> top
          [] pat = "alt"     -> i % 2
          [] pat = "count"   -> i % Pow2(nbits)
          [] pat = "run_lit" -> IF i < 26 THEN top ELSE i % 2
          [] pat = "lit_run" -> IF i < 16 THEN i % 2 ELSE top

RleInit ==
    /\ rin \in [nbits : RleWidths, pat : RlePatterns, total : RleTotals, batch : RleBatches,
                 tail : BOOLEAN]
    /\ \E fill \in RingFills :
         s = [vals |-> [i \in 0..(RLE_BFRSZ - 1) |-> fill],
              rle_pos |-> 0, rle_run |-> 0, run_val |-> 0, rle_numvals |-> 0,
              rle_out |-> 0, rle_lit_count |-> 0, rle_rpt_count |-> 0]
    /\ mem = <<>>
    /\ memFill \in MemFills
    /\ rcalls = 0
    /\ rlast = [flush |-> FALSE, rle_pos |-> 0, rle_run |-> 0, rle_out |-> 0,
                lits |-> <<>>, packs |-> <<>>, rpts |-> <<>>]
    /\ bar = Idle
    /\ PageIdle
    /\ FragIdle

\* the ring after the caller stored the values of positions have .. have + nrows - 1
RingStore(vals, pat, nbits, have, nrows) ==
    [i \in 0..(RLE_BFRSZ - 1) |->
        IF (i - have) % RLE_BFRSZ < nrows
        THEN InVal(pat, nbits, have + ((i - have) % RLE_BFRSZ))
        ELSE vals[i]]

\* line 753: the batch the caller hands over
RleBatch(total, batch, st) ==
    Min(Min(total - st.rle_numvals, batch), RLE_BFRSZ - (st.rle_numvals - st.rle_pos))

\* the values of the caller's next batch: none once all values are handed over, which is
\* the last batch of a page that ends with rows without value (line 828 with scratch_red[3] = 0)
RleNewVals == IF s.rle_numvals < rin.total THEN RleBatch(rin.total, rin.batch, s) ELSE 0

\* the caller's flush argument: the batch is the last of the page
RleLastBatch(nrows) ==
    IF rin.tail THEN s.rle_numvals = rin.total ELSE s.rle_numvals + nrows = rin.total

\* the caller stores the next nrows values and calls RleEncode
RleCall ==
    /\ ~rlast.flush
    /\ \/ s.rle_numvals < rin.total /\ RleBatch(rin.total, rin.batch, s) > 0
       \/ s.rle_numvals = rin.total /\ rin.tail
    /\ \E nrows \in {RleNewVals} :
         \E st \in {[s EXCEPT !.vals = RingStore(s.vals, rin.pat, rin.nbits, s.rle_numvals, nrows)]} :
           \E l \in {RleLocals(st, mem, s.rle_numvals + nrows, rin.nbits, RleLastBatch(nrows))} :
             /\ s' = RleStoreBack(st, l, s.rle_numvals + nrows).st
             /\ mem' = RleStoreBack(st, l, s.rle_numvals + nrows).mem
             /\ rlast' = [flush |-> RleLastBatch(nrows),
                          rle_pos |-> s.rle_pos, rle_run |-> s.rle_run, rle_out |-> s.rle_out,
                          lits |-> l.lits, packs |-> l.packs, rpts |-> l.rpts]
    /\ rcalls' = rcalls + 1
    /\ UNCHANGED <<rin, memFill, bar>>
    /\ UNCHANGED pageVars
    /\ UNCHANGED fragVars

RleNext == RleCall

SpecRle == RleInit /\ [][RleNext]_vars

\* the last call, with flush set, has returned
RleFlushed == rcalls > 0 /\ rlast.flush

\* the stream a reader is given: the bytes the encoder wrote up to rle_out
RleDecoded == RleDecode(mem, s.rle_out, 0, rin.nbits, <<>>)

\* C1: once the last call (flush set) has returned, a standard reader of the bytes
\* [0, rle_out) gets the input values back, followed by less than 8 zero padding values.
RleRoundTrip ==
    RleFlushed =>
        LET d == RleDecoded
        IN  /\ d.ok
            /\ Len(d.vals) >= rin.total
            /\ Len(d.vals) < rin.total + 8
            /\ \A i \in 1..Len(d.vals) :
                 d.vals[i] = IF i <= rin.total THEN InVal(rin.pat, rin.nbits, i - 1) ELSE 0

---------------------------------------------------------------------------
(***************************************************************************)
(* The kernels as actions, one per block.  The blocks of a launch run in   *)
(* any order; a launch starts when the launch before it has finished, in   *)
(* the order InitEncoderPages, EncodePages, DecideCompression,             *)
(* EncodePageHeaders.  EncodePages and EncodePageHeaders are launched with *)
(* start_page = 0 over the whole page array.                               *)
(***************************************************************************)

\* gpuInitPages for the block of chunk c, with a page array to fill
InitPages(c) ==
    /\ c \in DOMAIN chunks
    /\ <<"InitPages", c>> \notin done
    /\ \E l \in {gpuInitPages(chunks[c], c, col.level_bits, TRUE)} :
         /\ pages' = PutPages(pages, chunks[c].first_page, l.pages)
         /\ chunks' = [chunks EXCEPT ![c] = PlanChunk(chunks[c], l)]
         /\ bfr' = PutPages(bfr, chunks[c].first_page,
                            [k \in 1..Len(l.pages) |-> [data |-> <<>>, comp |-> <<>>]])
    /\ done' = done \cup {<<"InitPages", c>>}
    /\ UNCHANGED <<col, comp_out>>
    /\ UNCHANGED <<ckbfr, comp_in>>
    /\ UNCHANGED rleVars
    /\ UNCHANGED fragVars

\* gpuInitPages for the block of chunk c, launched with a null page array to count the pages
CountPages(c) ==
    /\ c \in DOMAIN chunks
    /\ <<"CountPages", c>> \notin done
    /\ <<"InitPages", c>> \notin done
    /\ \E l \in {gpuInitPages(chunks[c], c, col.level_bits, FALSE)} :
         /\ pages' = PutPages(pages, chunks[c].first_page, l.pages)
         /\ chunks' = [chunks EXCEPT ![c] = PlanChunk(chunks[c], l)]
    /\ done' = done \cup {<<"CountPages", c>>}
    /\ UNCHANGED <<col, bfr, comp_out>>
    /\ UNCHANGED <<ckbfr, comp_in>>
    /\ UNCHANGED rleVars
    /\ UNCHANGED fragVars

\* s->comp_out.status = ~0, as a signed word
StatusUnset == -1

\* lines 895-903: s->comp_in, with srcDevice and dstDevice as offsets from the chunk's
\* uncompressed_bfr and compressed_bfr
CompIn(pg, st) ==
    [srcDevice |-> pg.page_data + pg.max_hdr_size,
     srcSize |-> ActualDataSize(pg, st),
     dstDevice |-> pg.compressed_data + pg.max_hdr_size,
     dstSize |-> GetMaxCompressedBfrSize(pg.max_data_size)]

\* gpuEncodePages for block b
EncodePages(b) ==
    /\ \A c \in DOMAIN chunks : <<"InitPages", c>> \in done
    /\ b \in DOMAIN pages
    /\ <<"EncodePages", b>> \notin done
    /\ \E fill \in {0, 65535} :
         \E x \in {gpuEncodePages(pages[b], col, bfr[b].data, fill)} :
            /\ pages' = [pages EXCEPT ![b].max_data_size = ActualDataSize(pages[b], x.st)]
            /\ bfr' = [bfr EXCEPT ![b].data = x.mem]
            /\ comp_in' = IF comp_in = NoStatus THEN comp_in
                          ELSE [comp_in EXCEPT ![b] = CompIn(pages[b], x.st)]
    /\ comp_out' = IF comp_out = NoStatus THEN comp_out
                   ELSE [comp_out EXCEPT ![b] = [bytes_written |-> 0, status |-> StatusUnset]]
    /\ done' = done \cup {<<"EncodePages", b>>}
    /\ UNCHANGED <<col, chunks>>
    /\ UNCHANGED ckbfr
    /\ UNCHANGED rleVars
    /\ UNCHANGED fragVars

\* gpuDecideCompression for the block of chunk c
DecideCompression(c) ==
    /\ \A b \in DOMAIN pages : <<"EncodePages", b>> \in done
    /\ \A k \in DOMAIN chunks : <<"InitPages", k>> \in done
    /\ c \in DOMAIN chunks
    /\ <<"DecideCompression", c>> \notin done
    /\ chunks' = [chunks EXCEPT ![c] = gpuDecideCompression(chunks[c], pages, comp_out)]
    /\ done' = done \cup {<<"DecideCompression", c>>}
    /\ UNCHANGED <<col, pages, bfr, comp_out>>
    /\ UNCHANGED <<ckbfr, comp_in>>
    /\ UNCHANGED rleVars
    /\ UNCHANGED fragVars

\* gpuEncodePageHeaders for block b
EncodePageHeaders(b) ==
    /\ \A c \in DOMAIN chunks : <<"DecideCompression", c>> \in done
    /\ b \in DOMAIN pages
    /\ <<"EncodePageHeaders", b>> \notin done
    /\ \E hdr \in {HeaderOf(pages[b], chunks[pages[b].chunk_id], comp_out, b)} :
         bfr' = IF chunks[pages[b].chunk_id].is_compressed
                THEN [bfr EXCEPT ![b].comp = Store(bfr[b].comp, 0, hdr)]
                ELSE [bfr EXCEPT ![b].data = Store(bfr[b].data, 0, hdr)]
    /\ pages' = [pages EXCEPT ![b] = HeaderPage(pages[b], chunks[pages[b].chunk_id], comp_out, b)]
    /\ done' = done \cup {<<"EncodePageHeaders", b>>}
    /\ UNCHANGED <<col, chunks, comp_out>>
    /\ UNCHANGED <<ckbfr, comp_in>>
    /\ UNCHANGED rleVars
    /\ UNCHANGED fragVars

---------------------------------------------------------------------------
(***************************************************************************)
(* The page planner on its own: one chunk whose fragments have any of a    *)
(* few row counts and data sizes, large sizes included.                    *)
(***************************************************************************)
MaxPlanFrags == 4
PlanFragRows == {0, 1, 3}
PlanFragSizes == {1000, 150000, 300000}
PlanStartRows == {0, 7}
PlanFirstPages == {0, 2}
PlanLevelBits == {0, 1}

RECURSIVE SumRows(_, _)
\* the summed num_rows of the first n fragments
SumRows(frags, n) == IF n = 0 THEN 0 ELSE SumRows(frags, n - 1) + frags[n].num_rows

\* one chunk of up to most fragments, not yet planned
PlanInitOf(most) ==
    /\ RleIdle
    /\ memFill = 0
    /\ \E lb \in PlanLevelBits :
         col = [physical_type |-> "INT32", level_bits |-> lb, num_rows |-> 0,
                valid_map_base |-> NullPtr, vpat |-> "all", dpat |-> "mod3"]
    /\ \E n \in 1..most :
         \E frags \in [1..n -> [num_rows : PlanFragRows, fragment_data_size : PlanFragSizes]] :
           \E sr \in PlanStartRows, fp \in PlanFirstPages :
             chunks = [c \in {0} |->
                         [start_row |-> sr, num_rows |-> SumRows(frags, n), first_page |-> fp,
                          num_pages |-> 0, bfr_size |-> 0, compressed_size |-> 0,
                          is_compressed |-> FALSE, fragments |-> frags]]
    /\ pages = <<>>
    /\ bfr = <<>>
    /\ ckbfr = <<>>
    /\ comp_in = NoStatus
    /\ comp_out = NoStatus
    /\ done = {}
    /\ FragIdle

PlanInit == PlanInitOf(MaxPlanFrags)

PlanNext == \E c \in DOMAIN chunks : InitPages(c)

SpecPlan == PlanInit /\ [][PlanNext]_vars

\* the pages of chunk ck in the page array, in order
ChunkPages(ck) == [k \in 1..ck.num_pages |-> pages[ck.first_page + k - 1]]

\* every fragment of the chunk has a row and the fragments' rows sum to the chunk's
FragmentsCoverChunk(ck) ==
    /\ \A j \in 1..Len(ck.fragments) : ck.fragments[j].num_rows >= 1
    /\ SumRows(ck.fragments, Len(ck.fragments)) = ck.num_rows

\* C2: once gpuInitPages has run for a chunk whose fragments all have rows and sum to the
\* chunk's num_rows, the chunk's pages start at the chunk's start_row, each next page
\* starts where the page before it ends, and the pages' num_rows sum to the chunk's.
PageRangesContiguous ==
    \A c \in DOMAIN chunks :
        (<<"InitPages", c>> \in done /\ FragmentsCoverChunk(chunks[c])) =>
            LET ps == ChunkPages(chunks[c])
            IN  /\ Len(ps) >= 1
                /\ ps[1].start_row = chunks[c].start_row
                /\ \A k \in 1..(Len(ps) - 1) :
                     ps[k + 1].start_row = ps[k].start_row + ps[k].num_rows
                /\ SumRows(ps, Len(ps)) = chunks[c].num_rows

\* a planned chunk of at least three pages, two of them with rows
PageRangesSplit ==
    \E c \in DOMAIN chunks :
        /\ <<"InitPages", c>> \in done
        /\ FragmentsCoverChunk(chunks[c])
        /\ chunks[c].num_pages >= 3
        /\ Cardinality({k \in 1..chunks[c].num_pages : ChunkPages(chunks[c])[k].num_rows > 0}) >= 2

---------------------------------------------------------------------------
(***************************************************************************)
(* The page pipeline: a column of num_rows rows is cut into fragments of   *)
(* fragment_size rows (gpuInitPageFragments) and chunks of frags_per_chunk *)
(* fragments; the chunks are planned, the pages encoded, the compression   *)
(* decision taken without a compressor (comp_out is null) and the headers  *)
(* written.                                                                *)
(***************************************************************************)
MaxChunks == 2
MaxFrags == 10
PipeTypes == {"BOOLEAN", "INT32", "INT64"}
PipeRows == {1, 2, 130, 1000}
PipeFragSizes == {1, 100, 5000}
PipeFragsPerChunk == {1, 10}
PipeValidity == {<<0, NullPtr, "all">>, <<1, NullPtr, "all">>, <<1, "bitmap", "all">>,
                 <<1, "bitmap", "alt">>, <<1, "bitmap", "tail">>, <<1, "bitmap", "none">>}

\* ceil(a / b)
CeilDiv(a, b) == (a + b - 1) \div b

\* the chunks of a column: chunk k holds the fragments k * per .. , up to per of them
ChunkOf(c, fragment_size, per, k) ==
    [start_row |-> k * per * fragment_size,
     num_rows |-> Min(per * fragment_size, c.num_rows - k * per * fragment_size),
     first_page |-> 0, num_pages |-> 0, bfr_size |-> 0, compressed_size |-> 0,
     is_compressed |-> FALSE,
     fragments |-> [j \in 1..Min(per, CeilDiv(c.num_rows, fragment_size) - k * per) |->
                       FragmentOf(c, fragment_size, (k * per + j - 1) * fragment_size)]]

RECURSIVE PagesBefore(_, _, _, _)
\* the pages of the chunks before chunk k: what the page-counting launch (pages = null) reports
PagesBefore(c, fragment_size, per, k) ==
    IF k = 0 THEN 0
    ELSE PagesBefore(c, fragment_size, per, k - 1)
         + gpuInitPages(ChunkOf(c, fragment_size, per, k - 1), k - 1, c.level_bits, FALSE).num_pages

PagesInit ==
    /\ RleIdle
    /\ memFill \in MemFills
    /\ \E ty \in PipeTypes, n \in PipeRows, v \in PipeValidity :
         col = [physical_type |-> ty, level_bits |-> v[1], num_rows |-> n,
                valid_map_base |-> v[2], vpat |-> v[3],
                dpat |-> IF ty = "BOOLEAN" THEN "bool" ELSE "mod3"]
    /\ \E fs \in PipeFragSizes, per \in PipeFragsPerChunk :
         /\ CeilDiv(col.num_rows, fs) <= MaxFrags
         /\ CeilDiv(CeilDiv(col.num_rows, fs), per) <= MaxChunks
         /\ chunks = [k \in 0..(CeilDiv(CeilDiv(col.num_rows, fs), per) - 1) |->
                        [ChunkOf(col, fs, per, k) EXCEPT
                            !.first_page = PagesBefore(col, fs, per, k)]]
    /\ pages = <<>>
    /\ bfr = <<>>
    /\ ckbfr = <<>>
    /\ comp_in = NoStatus
    /\ comp_out = NoStatus
    /\ done = {}
    /\ FragIdle

PagesNext ==
    \/ \E c \in DOMAIN chunks : InitPages(c)
    \/ \E b \in DOMAIN pages : EncodePages(b)
    \/ \E c \in DOMAIN chunks : DecideCompression(c)
    \/ \E b \in DOMAIN pages : EncodePageHeaders(b)

SpecPages == PagesInit /\ [][PagesNext]_vars

\* page b as gpuInitPages planned it
PlannedPage(b) ==
    gpuInitPages(chunks[pages[b].chunk_id], pages[b].chunk_id, col.level_bits, TRUE)
        .pages[b - chunks[pages[b].chunk_id].first_page + 1]

\* C3: a page encoded by gpuEncodePages records an actual data size that is at most the
\* max_data_size the planner reserved for it.
ActualWithinReserved ==
    \A b \in DOMAIN pages :
        <<"EncodePages", b>> \in done => pages[b].max_data_size <= PlannedPage(b).max_data_size

---------------------------------------------------------------------------
(***************************************************************************)
(* A reader of the Thrift compact protocol, for the page headers: the      *)
(* fields of the struct at offset p, nested structs included, as a set of  *)
(* <<path of field ids, value>>.  curs holds the last field id of the      *)
(* struct being read and of the structs around it.                         *)
(***************************************************************************)
ReadZigZag(m, len, p) ==
    LET b == MemAt(m, p)
        r == IF p < len /\ b >= 128 THEN ReadVlq(m, len, p + 1, 0, 0)
             ELSE [v |-> 0, next |-> IF p < len THEN p + 1 ELSE -1]
        a == (b % 128) \div 2 + 64 * r.v
    IN  [v |-> IF b % 2 = 0 THEN a ELSE -a - 1, next |-> r.next]

RECURSIVE ReadFields(_, _, _, _, _, _)
ReadFields(m, len, p, path, curs, acc) ==
    IF p < 0 \/ p >= len THEN [ok |-> FALSE, fields |-> acc, next |-> p]
    ELSE IF MemAt(m, p) = 0 THEN
        IF path = <<>> THEN [ok |-> TRUE, fields |-> acc, next |-> p + 1]
        ELSE ReadFields(m, len, p + 1, SubSeq(path, 1, Len(path) - 1), Tail(curs), acc)
    ELSE
        LET ty == MemAt(m, p) % 16
            id == IF MemAt(m, p) \div 16 = 0 THEN ReadZigZag(m, len, p + 1)
                  ELSE [v |-> Head(curs) + MemAt(m, p) \div 16, next |-> p + 1]
            val == ReadZigZag(m, len, id.next)
        IN  IF id.next < 0 THEN [ok |-> FALSE, fields |-> acc, next |-> p]
            ELSE IF ty = 12
            THEN ReadFields(m, len, id.next, Append(path, id.v), <<0, id.v>> \o Tail(curs), acc)
            ELSE IF ty \in {5, 6}
            THEN ReadFields(m, len, val.next, path, <<id.v>> \o Tail(curs),
                            acc \cup {<<Append(path, id.v), val.v>>})
            ELSE [ok |-> FALSE, fields |-> acc, next |-> p]

\* the header of page b as a reader of the page buffer sees it
HeaderRead(b) == ReadFields(bfr[b].data, pages[b].hdr_size, 0, <<>>, <<0>>, {})

\* the column of the end-to-end scenario: 1000 INT32 rows, row index mod 3, no nulls, one chunk
ThousandInt32 ==
    /\ col.physical_type = "INT32"
    /\ col.num_rows = 1000
    /\ col.dpat = "mod3"
    /\ col.valid_map_base = NullPtr \/ col.vpat = "all"
    /\ DOMAIN chunks = {0}

\* C10: the chunk of 1000 INT32 rows without nulls is planned as exactly one data page of
\* all 1000 rows, and the header written for that page reads back with num_values = 1000.
OnePageOfThousand ==
    ThousandInt32 =>
        /\ <<"InitPages", 0>> \in done =>
             /\ chunks[0].num_pages = 1
             /\ DOMAIN pages = {0}
             /\ pages[0].page_type = "DATA_PAGE"
             /\ pages[0].start_row = 0
             /\ pages[0].num_rows = 1000
        /\ <<"EncodePageHeaders", 0>> \in done =>
             /\ HeaderRead(0).ok
             /\ HeaderRead(0).next = pages[0].hdr_size
             /\ <<<<1>>, DATA_PAGE>> \in HeaderRead(0).fields
             /\ <<<<5, 1>>, 1000>> \in HeaderRead(0).fields

\* the scenario's page with its header written
ThousandHeaderWritten == ThousandInt32 /\ <<"EncodePageHeaders", 0>> \in done

---------------------------------------------------------------------------
(***************************************************************************)
(* The compression decision on its own: a page array of several chunks,    *)
(* already encoded, with synthetic page sizes and, when a compressor ran,  *)
(* its status array comp_out (entry i belongs to pages[i]).                *)
(***************************************************************************)
MaxCompChunks == 2
MaxCompPages == 4
CompPageSize == 10
CompBytesWritten == {5, 30}
CompStatus == {0, 1}

\* page i of the synthetic array, a page of chunk c
CompPage(c, i) ==
    [num_fragments |-> 1, chunk_id |-> c, page_type |-> "DATA_PAGE", hdr_size |-> 0,
     max_hdr_size |-> MaxHdrSize, max_data_size |-> CompPageSize, page_data |-> 0,
     start_row |-> i, num_rows |-> 1]

\* the chunk of page i when the chunks' page counts are np
RECURSIVE ChunkOfPage(_, _, _)
ChunkOfPage(np, i, c) == IF i < np[c] THEN c ELSE ChunkOfPage(np, i - np[c], c + 1)

\* the pages of the chunks 0 .. c - 1
RECURSIVE PagesUpTo(_, _)
PagesUpTo(np, c) == IF c = 0 THEN 0 ELSE PagesUpTo(np, c - 1) + np[c - 1]

CompInit ==
    /\ RleIdle
    /\ memFill = 0
    /\ col = Idle
    /\ \E nc \in 1..MaxCompChunks :
         \E np \in [0..(nc - 1) -> 1..MaxCompPages] :
           /\ PagesUpTo(np, nc) <= MaxCompPages
           /\ chunks = [c \in 0..(nc - 1) |->
                          [start_row |-> PagesUpTo(np, c), num_rows |-> np[c],
                           first_page |-> PagesUpTo(np, c), num_pages |-> np[c],
                           bfr_size |-> 0, compressed_size |-> 0, is_compressed |-> FALSE,
                           fragments |-> <<>>]]
           /\ pages = [i \in 0..(PagesUpTo(np, nc) - 1) |-> CompPage(ChunkOfPage(np, i, 0), i)]
           /\ \/ comp_out = NoStatus
              \/ comp_out \in [0..(PagesUpTo(np, nc) - 1) ->
                                  [bytes_written : CompBytesWritten, status : CompStatus]]
    /\ bfr = [i \in DOMAIN pages |-> [data |-> <<>>, comp |-> <<>>]]
    /\ ckbfr = <<>>
    /\ comp_in = NoStatus
    /\ done = {<<"InitPages", c>> : c \in DOMAIN chunks}
                \cup {<<"EncodePages", b>> : b \in DOMAIN pages}
    /\ FragIdle

CompNext == \E c \in DOMAIN chunks : DecideCompression(c)

SpecComp == CompInit /\ [][CompNext]_vars

\* the chunk's own pages in the page array
OwnPages(ck) == ck.first_page..(ck.first_page + ck.num_pages - 1)

RECURSIVE OwnSum(_, _, _)
\* f[first] + ... + f[first + n - 1]
OwnSum(f, first, n) == IF n = 0 THEN 0 ELSE OwnSum(f, first, n - 1) + f[first + n - 1]

OwnUncompressed(ck) == OwnSum([i \in DOMAIN pages |-> pages[i].max_data_size], ck.first_page, ck.num_pages)
OwnCompressed(ck) == OwnSum([i \in DOMAIN pages |-> comp_out[i].bytes_written], ck.first_page, ck.num_pages)
OwnError(ck) == \E i \in OwnPages(ck) : comp_out[i].status # 0

\* C8: a decided chunk is marked compressed exactly when statuses were supplied, none of its
\* own pages has a non-zero status and its own pages' bytes_written sum to less than their
\* uncompressed sizes.
CompressedIffOwnPages ==
    \A c \in DOMAIN chunks :
        <<"DecideCompression", c>> \in done =>
            (chunks[c].is_compressed <=>
                (/\ comp_out # NoStatus
                 /\ ~OwnError(chunks[c])
                 /\ OwnCompressed(chunks[c]) < OwnUncompressed(chunks[c])))

\* C9: a decided chunk whose own pages have no error and compress records the summed
\* bytes_written of its own pages as compressed_size; one with an error (or no gain) is not
\* compressed and records the summed uncompressed sizes; bfr_size is that sum in both cases.
FallbackSizes ==
    \A c \in DOMAIN chunks :
        (<<"DecideCompression", c>> \in done /\ comp_out # NoStatus) =>
            /\ chunks[c].bfr_size = OwnUncompressed(chunks[c])
            /\ IF ~OwnError(chunks[c]) /\ OwnCompressed(chunks[c]) < OwnUncompressed(chunks[c])
               THEN chunks[c].compressed_size = OwnCompressed(chunks[c])
               ELSE /\ ~chunks[c].is_compressed
                    /\ chunks[c].compressed_size = OwnUncompressed(chunks[c])

---------------------------------------------------------------------------
(***************************************************************************)
(* gpuInitPageFragments: one block of 512 lanes per fragment.  The block   *)
(* runs from barrier to barrier; an action is one such stretch, or one     *)
(* pass of a loop over the fragment's rows, taken by all lanes.  What the  *)
(* lanes' atomics and unordered accesses leave open between two barriers   *)
(* is chosen by the action: the warps whose read of scratch_red comes      *)
(* after the next pass's write, which of two stores to one address lands   *)
(* last, and the order in which the lanes' atomicAdd claim their slots.    *)
(*                                                                         *)
(* fragSt is frag_init_state_s with the block's position pc and the loop   *)
(* counter i.  map is the u16 view of s->map (no count reaches 2^16);      *)
(* scratch_red is rewritten before it is read in every stretch but the     *)
(* one of the race and is not kept.  The columns are INT32 without         *)
(* converted type and INT64, so that dtype_len_in = dtype_len.             *)
(***************************************************************************)
INIT_HASH_BITS == 12
FragThreads == 512
Lanes == 0..(FragThreads - 1)
HashBuckets == 0..(Pow2(INIT_HASH_BITS) - 1)

uint32_init_hash(v) == (v + Shr(v, 16)) % Pow2(INIT_HASH_BITS)
\* v >> 32 is taken in two steps of 16
uint64_init_hash(v) == (v + Shr(Shr(v, 16), 16)) % Pow2(INIT_HASH_BITS)

\* lines 158-165: hash of the value of a row
FragHash(c, row) ==
    IF DtypeLen(c.physical_type) = 8 THEN uint64_init_hash(ColumnData(c, row))
    ELSE uint32_init_hash(ColumnData(c, row))

\* the function f with all its values computed
Array(f) == f @@ <<>>

RECURSIVE SumRange(_, _, _)
\* f[lo] + ... + f[hi]
SumRange(f, lo, hi) == IF hi < lo THEN 0 ELSE f[hi] + SumRange(f, lo, hi - 1)

\* inclusive prefix sum over the 16 lanes of t's half-warp
WarpReducePos16(x, t) == SumRange(x, t - (t % 16), t)

\* a lane that stores nothing, a lane without a hash
NoStore == <<>>
NoKey == -1

RECURSIVE LaneStores(_, _, _, _)
\* The array entries written by the lanes lo .. hi, where lane t stores w[t] = <<address,
\* value>>; of two lanes that store to one address the lower one's store is the last to
\* land if low, the higher one's otherwise.
LaneStores(w, lo, hi, low) ==
    IF lo = hi THEN (IF w[lo] = NoStore THEN <<>> ELSE w[lo][1] :> w[lo][2])
    ELSE IF low
         THEN LaneStores(w, lo, (lo + hi) \div 2, low) @@ LaneStores(w, (lo + hi) \div 2 + 1, hi, low)
         ELSE LaneStores(w, (lo + hi) \div 2 + 1, hi, low) @@ LaneStores(w, lo, (lo + hi) \div 2, low)

\* cnt[k], or 0 for a key without lanes
CountAt(cnt, k) == IF k \in DOMAIN cnt THEN cnt[k] ELSE 0

\* the halves l and r of a lane range put together
BucketMerge(h, l, r) ==
    [cnt |-> Array([k \in DOMAIN l.cnt \cup DOMAIN r.cnt |-> CountAt(l.cnt, k) + CountAt(r.cnt, k)]),
     rk |-> l.rk @@ [t \in DOMAIN r.rk |-> r.rk[t] + CountAt(l.cnt, h[t])]]

RECURSIVE BucketScan(_, _, _)
\* For the lanes lo .. hi with hash h[t] (NoKey: none): cnt[k] is the number of lanes with
\* hash k and rk[t] the number of lanes below t with t's hash.
BucketScan(h, lo, hi) ==
    IF lo = hi
    THEN (IF h[lo] = NoKey THEN [cnt |-> <<>>, rk |-> <<>>]
          ELSE [cnt |-> h[lo] :> 1, rk |-> lo :> 0])
    ELSE BucketMerge(h, BucketScan(h, lo, (lo + hi) \div 2),
                        BucketScan(h, (lo + hi) \div 2 + 1, hi))

\* line 120
FragStartRow(fi) == fi.y * fi.fragment_size

\* line 146 without the comparison of the row with the column's row count
FragIsValidAnyRow(c, nrows, start_row, p) ==
    IF p < nrows
    THEN (IF c.valid_map_base # NullPtr THEN ValidBit(c, start_row + p) ELSE 1)
    ELSE 0

\* line 146: is_valid of the lane with i + t = p
FragIsValid(c, nrows, start_row, p) == IF p < nrows THEN IsValid(c, start_row + p) ELSE 0

\* is_valid of the lanes in the pass at i
PassValid(c, nrows, start_row, i) ==
    Array([t \in Lanes |-> FragIsValid(c, nrows, start_row, i + t)])

\* line 173: __popc(valid_warp) of warp w
WarpPopc(v, w) == Cardinality({t \in (32 * w)..(32 * w + 31) : v[t] = 1})

\* line 170: __popc(valid_warp & (0x7fffffffu >> (0x1fu - (t & 0x1f))))
LanePopc(v, t) == Cardinality({u \in (t - (t % 32))..(t - 1) : v[u] = 1})

\* lines 173-182: scratch_red[0..15] after line 173 of the pass, then after line 182
ScanWarpCounts(v) == Array([w \in 0..15 |-> WarpPopc(v, w)])
ScanWarpPos(wp) == Array([w \in 0..15 |-> WarpReducePos16(wp, w)])

\* line 193: what warp w + 1 reads in scratch_red[w].  No barrier lies between this read
\* and line 173 of the next pass, where the leader of warp w stores its warp's next
\* __popc(valid_warp) into the same entry: a warp of late reads the later value.
ScanRed(pos, vnext, late) ==
    Array([w \in 0..14 |-> IF (w + 1) \in late THEN WarpPopc(vnext, w) ELSE pos[w]])

\* lines 170 and 193: nz_pos of the lanes
ScanNzPos(v, red, non_nulls) ==
    Array([t \in Lanes |->
              non_nulls + LanePopc(v, t) + (IF t >= 32 THEN red[(t - 32) \div 32] ELSE 0)])

\* line 197: the store of lane t into col.dict_index
ScanStores(c, v, nz, start_row, i) ==
    Array([t \in Lanes |->
              IF v[t] = 1
              THEN <<start_row + nz[t], Shl(i + t, INIT_HASH_BITS) + FragHash(c, start_row + i + t)>>
              ELSE NoStore])

\* line 196: the hash whose count lane t increments
ScanKeys(c, v, start_row, i) ==
    Array([t \in Lanes |-> IF v[t] = 1 THEN FragHash(c, start_row + i + t) ELSE NoKey])

\* an entry of an array that is kept by its written entries: garbage where nothing was stored
EntryAt(a, p, fill) == IF p \in DOMAIN a THEN a[p] ELSE fill

\* where the block goes on after the loop over the rows (line 201)
ScanExit(st) ==
    IF st.col.dict_index = NullPtr THEN "finish"
    ELSE "hash"

\* lines 110-141: s after the second barrier
FragStart ==
    /\ fragSt.pc = "start"
    /\ \E st \in {[pc |-> "scan", i |-> 0,
                   col |-> [col EXCEPT !.num_rows = Min(col.num_rows, fragIn.max_num_rows)],
                   frag |-> [num_rows |-> FragNumRows(fragIn.fragment_size, fragIn.max_num_rows,
                                                      FragStartRow(fragIn)),
                             non_nulls |-> 0, num_dict_vals |-> 0,
                             fragment_data_size |-> 0, dict_data_size |-> 0],
                   total_dupes |-> 0, dupe_data_size |-> 0,
                   map |-> [k \in HashBuckets |-> 0],
                   dict |-> fragSt.dict]} :
         fragSt' = IF st.frag.num_rows > 0 THEN st ELSE [st EXCEPT !.pc = ScanExit(st)]
    /\ UNCHANGED <<fragIn, fragOut>>
    /\ UNCHANGED rleVars
    /\ UNCHANGED pageVars

\* lines 185, 186, 196: s after the pass whose warps counted wp valid lanes, pos in total
ScanState(st, wp, pos, cnt) ==
    [st EXCEPT !.frag.non_nulls = @ + pos[15],
               !.frag.fragment_data_size =
                   @ + SumRange([w \in 0..15 |-> DtypeLen(st.col.physical_type) * wp[w]], 0, 15),
               !.map = IF st.col.dict_index # NullPtr
                       THEN Array([k \in HashBuckets |-> st.map[k] + CountAt(cnt, k)])
                       ELSE @,
               !.i = @ + FragThreads,
               !.pc = IF st.i + FragThreads < st.frag.num_rows THEN "scan" ELSE ScanExit(st)]

\* the sets of warps that may read scratch_red late in a pass
LateChoices == {{}, {1}, {15}, 1..15}
ScanLate(st) == IF st.i + FragThreads < st.frag.num_rows THEN LateChoices ELSE {{}}

\* lines 142-200: one pass of the loop over the fragment's rows
FragScanPass ==
    /\ fragSt.pc = "scan"
    /\ \E late \in ScanLate(fragSt), low \in BOOLEAN :
         \E v \in {PassValid(fragSt.col, fragSt.frag.num_rows, FragStartRow(fragIn), fragSt.i)},
            vnext \in {PassValid(fragSt.col, fragSt.frag.num_rows, FragStartRow(fragIn),
                                 fragSt.i + FragThreads)} :
           \E wp \in {ScanWarpCounts(v)} :
             \E pos \in {ScanWarpPos(wp)} :
               \E nz \in {ScanNzPos(v, ScanRed(pos, vnext, late), fragSt.frag.non_nulls)} :
                 /\ fragSt' = ScanState(fragSt, wp, pos,
                                  BucketScan(ScanKeys(fragSt.col, v, FragStartRow(fragIn), fragSt.i),
                                             0, FragThreads - 1).cnt)
                 /\ fragOut' =
                      IF fragSt.col.dict_index = NullPtr THEN fragOut
                      ELSE [fragOut EXCEPT !.dict_index =
                               LaneStores(ScanStores(fragSt.col, v, nz, FragStartRow(fragIn), fragSt.i),
                                          0, FragThreads - 1, low) @@ @]
    /\ UNCHANGED fragIn
    /\ UNCHANGED rleVars
    /\ UNCHANGED pageVars

\* inclusive prefix sum over the 32 lanes of t's warp
WarpReducePos32(x, t) == SumRange(x, t - (t % 32), t)

\* lines 208-220: sum67 >> 16 of lane t, the sum of the lane's eight counts
HashLaneCount(map) == Array([t \in Lanes |-> SumRange(map, 8 * t, 8 * t + 7)])
\* line 221
HashSumW(lc) == Array([t \in Lanes |-> WarpReducePos16(lc, t)])
\* lines 222-229: scratch_red after the second barrier
HashSumB(sw) == Array([g \in 0..31 |-> WarpReducePos32([u \in 0..31 |-> sw[16 * u + 15]], g)])
\* lines 231-232: the low half of sum_w, the number of entries in the buckets of lower lanes
HashBase(lc, sw, sb) ==
    Array([t \in Lanes |-> sw[t] - lc[t] + (IF t >= 16 THEN sb[(t \div 16) - 1] ELSE 0)])
\* lines 233-236: the first slot of every bucket
HashOffsets(map, base) ==
    Array([k \in HashBuckets |-> base[k \div 8] + SumRange(map, 8 * (k \div 8), k - 1)])

\* lines 203-238: the counts of the hash map become the buckets' first slots
FragHashSum ==
    /\ fragSt.pc = "hash"
    /\ \E lc \in {HashLaneCount(fragSt.map)} :
         \E sw \in {HashSumW(lc)} :
           \E sb \in {HashSumB(sw)} :
             fragSt' = [fragSt EXCEPT !.map = HashOffsets(fragSt.map, HashBase(lc, sw, sb)),
                                      !.i = 0,
                                      !.pc = IF fragSt.frag.non_nulls > 0 THEN "insert" ELSE "finish"]
    /\ UNCHANGED <<fragIn, fragOut>>
    /\ UNCHANGED rleVars
    /\ UNCHANGED pageVars

\* the smaller value where both halves hold an address
MinMerge(l, r) ==
    Array([a \in DOMAIN l \cup DOMAIN r |->
              IF a \in DOMAIN l /\ a \in DOMAIN r THEN Min(l[a], r[a])
              ELSE IF a \in DOMAIN l THEN l[a] ELSE r[a]])

RECURSIVE MinStores(_, _, _)
\* the smallest value that the lanes lo .. hi hand to atomicMin, by address
MinStores(w, lo, hi) ==
    IF lo = hi THEN (IF w[lo] = NoStore THEN <<>> ELSE w[lo][1] :> w[lo][2])
    ELSE MinMerge(MinStores(w, lo, (lo + hi) \div 2), MinStores(w, (lo + hi) \div 2 + 1, hi))

\* the orders in which the lanes of one bucket may reach the atomicAdd of line 256: by
\* rising lane, by falling lane, and by rising lane with the lowest lane last
InsertOrders == {"asc", "desc", "rot"}

\* the number of claims of t's bucket that come before lane t's, rk and n being the
\* lane's rank in its bucket and the bucket's number of lanes
ArrivalRank(order, rk, n) ==
    CASE order = "asc"  -> rk
      [] order = "desc" -> n - 1 - rk
      [] order = "rot"  -> (rk + n - 1) % n

\* lines 246-251: val and hash of the lanes with i + t < nnz
InsertVals(st, out, fi) ==
    Array([t \in Lanes |->
              IF st.i + t < st.frag.non_nulls
              THEN EntryAt(out.dict_index, FragStartRow(fi) + st.i + t, fi.fill)
              ELSE NoKey])
InsertKeys(val) ==
    Array([t \in Lanes |-> IF val[t] = NoKey THEN NoKey ELSE val[t] % Pow2(INIT_HASH_BITS)])

\* line 256: pos of the lanes
InsertPos(st, h, bs, order) ==
    Array([t \in Lanes |->
              IF h[t] = NoKey THEN NoKey
              ELSE st.map[h[t]] + ArrivalRank(order, bs.rk[t], bs.cnt[h[t]])])

\* line 257
InsertStores(val, pos) ==
    Array([t \in Lanes |-> IF val[t] = NoKey THEN NoStore ELSE <<pos[t], val[t]>>])

\* lines 262-263: pos != pos_old && pos_new > pos_old + 1
InsertCollision(st, h, bs, pos) ==
    Array([t \in Lanes |->
              h[t] # NoKey /\ pos[t] # st.map[h[t]]
                  /\ st.map[h[t]] + bs.cnt[h[t]] > st.map[h[t]] + 1])

\* line 270: atomicMin(&s->dict[pos_old], val) of the colliding lanes
InsertMins(st, val, h, coll) ==
    MinStores([t \in Lanes |-> IF coll[t] THEN <<st.map[h[t]], val[t]>> ELSE NoStore],
              0, FragThreads - 1)
InsertMinDict(d1, mins, fill) ==
    Array([a \in DOMAIN mins |-> Min(EntryAt(d1, a, fill), mins[a])]) @@ d1

\* lines 274-275: the lane whose val is now in the bucket's first slot takes the slot's
\* former entry (colliding_row, read from d1 at line 265) into its own slot
InsertSwaps(st, val, h, pos, coll, d1, d2, fill) ==
    Array([t \in Lanes |->
              IF coll[t] /\ val[t] = EntryAt(d2, st.map[h[t]], fill)
              THEN <<pos[t], EntryAt(d1, st.map[h[t]], fill)>>
              ELSE NoStore])

\* s->dict after the pass: lines 257, 270 and 275
InsertDict3(st, val, h, pos, coll, d1, d2, fill, low) ==
    LaneStores(InsertSwaps(st, val, h, pos, coll, d1, d2, fill), 0, FragThreads - 1, low) @@ d2
InsertDict2(st, val, h, pos, coll, d1, fill, low) ==
    InsertDict3(st, val, h, pos, coll, d1, InsertMinDict(d1, InsertMins(st, val, h, coll), fill),
                fill, low)
InsertDict(st, val, h, pos, coll, fill, low) ==
    InsertDict2(st, val, h, pos, coll,
                LaneStores(InsertStores(val, pos), 0, FragThreads - 1, low) @@ st.dict, fill, low)

\* lines 243-277: one pass of the loop that puts the staged entries in hash order
FragInsertPass ==
    /\ fragSt.pc = "insert"
    /\ \E order \in InsertOrders, low \in BOOLEAN :
         \E val \in {InsertVals(fragSt, fragOut, fragIn)} :
           \E h \in {InsertKeys(val)} :
             \E bs \in {BucketScan(h, 0, FragThreads - 1)} :
               \E pos \in {InsertPos(fragSt, h, bs, order)} :
                 fragSt' = [fragSt EXCEPT
                    !.dict = InsertDict(fragSt, val, h, pos,
                                        InsertCollision(fragSt, h, bs, pos), fragIn.fill, low),
                    !.map = Array([k \in HashBuckets |-> fragSt.map[k] + CountAt(bs.cnt, k)]),
                    !.i = IF fragSt.i + FragThreads < fragSt.frag.non_nulls
                          THEN @ + FragThreads ELSE 0,
                    !.pc = IF fragSt.i + FragThreads < fragSt.frag.non_nulls
                           THEN "insert" ELSE "dedup"]
    /\ UNCHANGED <<fragIn, fragOut>>
    /\ UNCHANGED rleVars
    /\ UNCHANGED pageVars

\* ref | (1u << 31), read as an int32_t
DupeTag(ref) == ref + (-2147483647 - 1)

\* lines 288-291: ck_row and ck_row_ref of the lanes with i + t < nnz
DedupRow(st, fi) ==
    Array([t \in Lanes |->
              IF st.i + t < st.frag.non_nulls
              THEN FragStartRow(fi) + Shr(EntryAt(st.dict, st.i + t, fi.fill), INIT_HASH_BITS)
              ELSE NoKey])
DedupHash(st, t, fill) == EntryAt(st.dict, st.i + t, fill) % Pow2(INIT_HASH_BITS)
DedupRowRef(st, fi) ==
    Array([t \in Lanes |->
              IF st.i + t < st.frag.non_nulls
              THEN FragStartRow(fi)
                     + Shr(EntryAt(st.dict,
                                   IF DedupHash(st, t, fi.fill) > 0
                                   THEN st.map[DedupHash(st, t, fi.fill) - 1] ELSE 0,
                                   fi.fill),
                           INIT_HASH_BITS)
              ELSE NoKey])

\* lines 292-327: is_dupe of the lanes
DedupIsDupe(st, row, ref) ==
    Array([t \in Lanes |->
              IF row[t] # NoKey /\ ref[t] # row[t]
                   /\ ColumnData(st.col, row[t]) = ColumnData(st.col, ref[t])
              THEN 1 ELSE 0])

\* lines 333-346: scratch_red[0..15] after line 333, and warp_pos of the lanes 0..15
DedupWarpDupes(dupe) == Array([w \in 0..15 |-> WarpPopc(dupe, w)])
DedupWarpPos(wd) == Array([w \in 0..15 |-> WarpReducePos16(wd, w)])

\* line 330: __popc(dupe_mask & ((2 << (t & 0x1f)) - 1)), the mask of lane 31 being all ones
LanePopcUpTo(v, t) == Cardinality({u \in (t - (t % 32))..t : v[u] = 1})

\* dupes_before without the duplicates of the warps in front of the lane's warp
DedupBeforeInWarp(st, dupe, wd, wpos, t) == st.total_dupes + LanePopcUpTo(dupe, t)

\* lines 330 and 354: dupes_before of a lane that holds no duplicate
DedupBefore(st, dupe, wd, wpos, t) ==
    st.total_dupes + LanePopcUpTo(dupe, t) + (wpos[t \div 32] - wd[t \div 32])

\* line 355: the stores into col.dict_data
DedupData(st, fi, row, dupe, wd, wpos) ==
    Array([t \in Lanes |->
              IF row[t] # NoKey /\ dupe[t] = 0
              THEN <<FragStartRow(fi) + st.i + t - DedupBefore(st, dupe, wd, wpos, t),
                     row[t] - FragStartRow(fi)>>
              ELSE NoStore])

\* line 359: the stores into col.dict_index
DedupIndex(row, ref, dupe) ==
    Array([t \in Lanes |-> IF dupe[t] = 1 THEN <<row[t], DupeTag(ref[t])>> ELSE NoStore])

\* lines 282-362: one pass of the loop that compares every entry with its bucket's first
FragDedupPass ==
    /\ fragSt.pc = "dedup"
    /\ \E row \in {DedupRow(fragSt, fragIn)}, ref \in {DedupRowRef(fragSt, fragIn)} :
         \E dupe \in {DedupIsDupe(fragSt, row, ref)} :
           \E wd \in {DedupWarpDupes(dupe)} :
             \E wpos \in {DedupWarpPos(wd)} :
               /\ fragSt' = [fragSt EXCEPT
                     !.total_dupes = @ + wpos[15],
                     !.dupe_data_size =
                         @ + SumRange([w \in 0..15 |->
                                          (IF DtypeLen(fragSt.col.physical_type) = 8 THEN 8 ELSE 4)
                                              * wd[w]], 0, 15),
                     !.i = @ + FragThreads,
                     !.pc = IF fragSt.i + FragThreads < fragSt.frag.non_nulls
                            THEN "dedup" ELSE "finish"]
               /\ fragOut' = [fragOut EXCEPT
                     !.dict_data =
                         LaneStores(DedupData(fragSt, fragIn, row, dupe, wd, wpos),
                                    0, FragThreads - 1, TRUE) @@ @,
                     !.dict_index =
                         LaneStores(DedupIndex(row, ref, dupe), 0, FragThreads - 1, TRUE) @@ @]
    /\ UNCHANGED fragIn
    /\ UNCHANGED rleVars
    /\ UNCHANGED pageVars

\* lines 363-377: the dictionary's size and number of values
FragDictStats(st) ==
    IF st.col.dict_index = NullPtr THEN st.frag
    ELSE [st.frag EXCEPT !.dict_data_size = st.frag.fragment_data_size - st.dupe_data_size,
                         !.num_dict_vals = st.frag.non_nulls - st.total_dupes]

\* lines 363-382: s->frag goes to the fragment array
FragFinish ==
    /\ fragSt.pc = "finish"
    /\ fragSt' = [fragSt EXCEPT !.frag = FragDictStats(fragSt), !.pc = "done"]
    /\ fragOut' = [fragOut EXCEPT !.frag = FragDictStats(fragSt)]
    /\ UNCHANGED fragIn
    /\ UNCHANGED rleVars
    /\ UNCHANGED pageVars

---------------------------------------------------------------------------
(***************************************************************************)
(* One block of gpuInitPageFragments on a column given by its patterns.    *)
(* The launch has num_rows = max_num_rows; the column's own row count is   *)
(* that number or one less.  fill is what an entry of dict_index,          *)
(* dict_data or s->dict reads as before anything was stored in it.         *)
(***************************************************************************)
FragMaxRows == {1, 3, 513}
FragSizes == {2, 600}
FragBlocks == {0, 1}
FragShort == {0, 1}
FragFills == {0, 4101, 2457607}
FragValidity == {<<NullPtr, "all">>, <<"valid_map", "alt">>, <<"valid_map", "tail">>,
                 <<"valid_map", "none">>}
FragData == {"same", "bucket", "mod3", "down"}
FragDict == {NullPtr, "dict_index"}

\* the combinations of the harness: the fragments of more than one pass are few
FragCase(ty, n, short, fsz, y, fill, v, d, dict) ==
    /\ n - short >= 0
    /\ (n > FragThreads) =>
          /\ fsz > FragThreads /\ y = 0
          /\ <<ty, v[2], d, dict, short>> \in
                {<<"INT32", "all", "same", "dict_index", 0>>,
                 <<"INT32", "alt", "mod3", "dict_index", 1>>,
                 <<"INT64", "tail", "same", NullPtr, 0>>}
    /\ (n <= FragThreads) => (fill = 0 /\ ty = "INT32")

FragInit ==
    /\ RleIdle
    /\ memFill = 0
    /\ chunks = <<>> /\ pages = <<>> /\ bfr = <<>> /\ ckbfr = <<>> /\ comp_out = Idle
    /\ comp_in = Idle /\ done = {}
    /\ \E ty \in {"INT32", "INT64"}, n \in FragMaxRows, short \in FragShort, fsz \in FragSizes,
          y \in FragBlocks, fill \in FragFills, v \in FragValidity, d \in FragData,
          dict \in FragDict :
         /\ FragCase(ty, n, short, fsz, y, fill, v, d, dict)
         /\ col = [physical_type |-> ty, level_bits |-> 1, num_rows |-> n - short,
                   valid_map_base |-> v[1], vpat |-> v[2], dpat |-> d, dict_index |-> dict]
         /\ fragIn = [fragment_size |-> fsz, max_num_rows |-> n, y |-> y, fill |-> fill]
    /\ fragSt = [pc |-> "start", dict |-> <<>>]
    /\ fragOut = [dict_index |-> <<>>, dict_data |-> <<>>, frag |-> Idle]

FragNext ==
    \/ FragStart
    \/ FragScanPass
    \/ FragHashSum
    \/ FragInsertPass
    \/ FragDedupPass
    \/ FragFinish

SpecFrag == FragInit /\ [][FragNext]_vars

\* the block has written its PageFragment
FragWritten == fragSt.pc = "done"

\* the rows of the fragment
FragRange == FragStartRow(fragIn)..(FragStartRow(fragIn) + fragOut.frag.num_rows - 1)

\* the rows of the fragment that are below the column's row count and have their validity
\* bit set, or all rows below the row count for a column without bitmap
FragValidRows ==
    {r \in FragRange :
        r < col.num_rows /\ (col.valid_map_base # NullPtr => ValidBit(col, r) = 1)}

\* C4: the non_nulls of a written fragment is the number of rows of the fragment's range
\* that are below the column's row count and valid, and so at most num_rows, for fragments
\* of one and of several passes of 512 lanes.
NonNullsCounted ==
    FragWritten =>
        /\ fragOut.frag.non_nulls = Cardinality(FragValidRows)
        /\ fragOut.frag.non_nulls <= fragOut.frag.num_rows

\* a written fragment of more than 512 rows, some of them valid and some not
SeveralPassesCounted ==
    /\ FragWritten
    /\ fragOut.frag.num_rows > FragThreads
    /\ fragOut.frag.non_nulls > 0
    /\ fragOut.frag.non_nulls < fragOut.frag.num_rows

\* the entry of col.dict_index for row r
DictIndexAt(r) == EntryAt(fragOut.dict_index, r, fragIn.fill)

\* a written fragment of a column with dictionary whose rows are all valid and hold one value
ConstantFragment ==
    /\ FragWritten
    /\ col.dict_index # NullPtr
    /\ col.dpat = "same"
    /\ fragOut.frag.num_rows >= 1
    /\ FragValidRows = FragRange

\* C5: a fragment of N valid rows of one value has num_dict_vals = 1, and N - 1 of its rows
\* are tagged as duplicates of the one remaining row, the owner.
ConstantColumnOneEntry ==
    ConstantFragment =>
        /\ fragOut.frag.num_dict_vals = 1
        /\ \E owner \in FragRange :
              /\ DictIndexAt(owner) >= 0
              /\ \A r \in FragRange \ {owner} : DictIndexAt(r) = DupeTag(owner)

\* the lowest valid row of the fragment with the hash of row r
FirstOfHash(r) ==
    CHOOSE q \in FragValidRows :
        /\ FragHash(col, q) = FragHash(col, r)
        /\ \A p \in FragValidRows : FragHash(col, p) = FragHash(col, r) => q <= p

\* the valid rows that own their value: the first of a bucket and the rows that differ from it
FragOwners ==
    {r \in FragValidRows : ColumnData(col, r) # ColumnData(col, FirstOfHash(r)) \/ r = FirstOfHash(r)}

\* the first slot of the bucket of hash h
BucketStart(h) == IF h > 0 THEN fragSt.map[h - 1] ELSE 0

\* the rows listed in dict_data
DictDataRows ==
    {FragStartRow(fragIn) + EntryAt(fragOut.dict_data, FragStartRow(fragIn) + k, fragIn.fill) :
        k \in 0..(fragOut.frag.num_dict_vals - 1)}

\* C6: whatever the order of the lanes' slot claims, the owners are the rows that the input
\* determines, every other valid row references the first row of its bucket, and the first
\* slot of a bucket holds the lowest valid row with that hash.
OwnersFixed ==
    (FragWritten /\ col.dict_index # NullPtr) =>
        /\ DictDataRows = FragOwners
        /\ \A r \in FragValidRows \ FragOwners : DictIndexAt(r) = DupeTag(FirstOfHash(r))
        /\ \A r \in FragValidRows :
              FragStartRow(fragIn)
                  + Shr(EntryAt(fragSt.dict, BucketStart(FragHash(col, r)), fragIn.fill), INIT_HASH_BITS)
                = FirstOfHash(r)

\* entry p of the hash-sorted list s->dict and entry k of the fragment's part of dict_data
SortedEntry(p) == EntryAt(fragSt.dict, p, fragIn.fill)
DictDataAt(k) == EntryAt(fragOut.dict_data, FragStartRow(fragIn) + k, fragIn.fill)

\* a row with hash h1 comes before a later row with hash h2
HashOrdered(h1, row1, h2, row2) == h1 < h2 \/ (h1 = h2 /\ row1 < row2)

\* C7: the hash-sorted list holds the entries of a bucket in one order under every order of
\* the slot claims, the order of rising rows that claims by rising lane give, and dict_data
\* lists the owners in that order.
BucketOrderFixed ==
    (FragWritten /\ col.dict_index # NullPtr) =>
        /\ \A p \in 0..(fragOut.frag.non_nulls - 2) :
              HashOrdered(SortedEntry(p) % Pow2(INIT_HASH_BITS), SortedEntry(p),
                          SortedEntry(p + 1) % Pow2(INIT_HASH_BITS), SortedEntry(p + 1))
        /\ \A k \in 0..(fragOut.frag.num_dict_vals - 2) :
              HashOrdered(FragHash(col, FragStartRow(fragIn) + DictDataAt(k)), DictDataAt(k),
                          FragHash(col, FragStartRow(fragIn) + DictDataAt(k + 1)), DictDataAt(k + 1))

---------------------------------------------------------------------------
\* C11: the page of the 1000 INT32 rows of values row mod 3 without nulls is recorded by
\* gpuEncodePages with a data size below the 4000 bytes of 1000 plain values.
ThousandEncodedSmall ==
    (ThousandInt32 /\ <<"EncodePages", 0>> \in done) => pages[0].max_data_size < 4000

----------------------------------------------------------------------------
(***************************************************************************)
(* gpuGatherPages: one block per chunk moves the chunk's pages together.   *)
(* page_data and compressed_data are offsets into the chunk's              *)
(* uncompressed_bfr and compressed_bfr (lines 439-440), which are also the *)
(* destinations: the kernel works in place.                                *)
(***************************************************************************)

\* the byte at offset i of a buffer, unwritten bytes reading as fill
BfrAt(m, i, fill) == IF i \in DOMAIN m THEN m[i] ELSE fill

\* memcpy_block<1024, true>: the block copies len bytes from src to dst, every
\* byte of the range being loaded before the barrier and stored behind it
memcpy_block(m, dst, src, len, fill) ==
    Store(m, dst, [i \in 1..len |-> BfrAt(m, src + i - 1, fill)])

\* lines 1137-1147: one pass of the loop over the chunk's pages
GatherPage(ck, pg, l, fill) ==
    LET src == IF ck.is_compressed THEN pg.compressed_data ELSE pg.page_data
        hdr_len == pg.hdr_size
        data_len == pg.max_data_size
    IN  [dst |-> l.dst + hdr_len + data_len,
         uncompressed_size |-> l.uncompressed_size + hdr_len,
         m |-> memcpy_block(memcpy_block(l.m, l.dst, src, hdr_len, fill),
                            l.dst + hdr_len, src + pg.max_hdr_size, data_len, fill)]

RECURSIVE GatherLoop(_, _, _, _, _)
\* lines 1129-1149: the passes page .. num_pages - 1
GatherLoop(ck, pgs, page, l, fill) ==
    IF page >= ck.num_pages THEN l
    ELSE GatherLoop(ck, pgs, page + 1, GatherPage(ck, pgs[ck.first_page + page], l, fill), fill)

\* gpuGatherPages for the chunk ck whose destination buffer holds m: dst - dst_base,
\* uncompressed_size and the buffer at line 1150
gpuGatherPages(ck, pgs, m, fill) ==
    GatherLoop(ck, pgs, 0, [dst |-> 0, uncompressed_size |-> ck.bfr_size, m |-> m], fill)

\* gpuGatherPages for block c; ckbfr[c].was keeps the buffers the kernel started from
GatherPages(c) ==
    /\ c \in DOMAIN chunks
    /\ \A b \in DOMAIN pages : <<"EncodePageHeaders", b>> \in done
    /\ <<"GatherPages", c>> \notin done
    /\ \E g \in {gpuGatherPages(chunks[c], pages,
                                IF chunks[c].is_compressed THEN ckbfr[c].comp ELSE ckbfr[c].data,
                                memFill)} :
         /\ ckbfr' = IF chunks[c].is_compressed
                     THEN [ckbfr EXCEPT ![c].comp = g.m]
                     ELSE [ckbfr EXCEPT ![c].data = g.m]
         /\ chunks' = [chunks EXCEPT ![c].bfr_size = g.uncompressed_size,
                                     ![c].compressed_size = g.dst]
    /\ done' = done \cup {<<"GatherPages", c>>}
    /\ UNCHANGED <<col, pages, bfr, comp_out, comp_in>>
    /\ UNCHANGED rleVars
    /\ UNCHANGED fragVars

----------------------------------------------------------------------------
(***************************************************************************)
(* The gather kernel on its own: chunks of one or two pages as the header  *)
(* kernel leaves them.  A page is a slot of max_hdr_size bytes and the     *)
(* bytes reserved for its data, then hdr_size header bytes and             *)
(* max_data_size data bytes written into it; the sizes are small stand-ins *)
(* for the pages of a chunk that is cut at 256 KiB and more.  A page of an *)
(* uncompressed chunk can hold more data bytes than were reserved, as the  *)
(* value loop of gpuEncodePages stores rows behind the page's last row.    *)
(***************************************************************************)
MaxGatherChunks == 2
MaxGatherPages == 2
\* <<bytes reserved for the data, data bytes written>>
GatherSizes == {<<8, 8>>, <<40, 8>>, <<8, 40>>}
GatherHdrSizes == {17, 21}

\* the byte the harness puts at offset i of a buffer
GatherByte(i) == (7 * i + 3) % 256

RECURSIVE GatherSlot(_, _, _)
\* the offset of the slot of page i, the slots of a chunk starting at page first
GatherSlot(sz, first, i) ==
    IF i = first THEN 0 ELSE GatherSlot(sz, first, i - 1) + MaxHdrSize + sz[i - 1][1]

\* page i of the synthetic array, a page of chunk c whose pages start at first
GatherInPage(c, i, first, sz, hdr) ==
    [num_fragments |-> 1, chunk_id |-> c, page_type |-> "DATA_PAGE", hdr_size |-> hdr,
     max_hdr_size |-> MaxHdrSize, max_data_size |-> sz[i][2],
     page_data |-> GatherSlot(sz, first, i), compressed_data |-> GatherSlot(sz, first, i),
     start_row |-> i, num_rows |-> 1]

RECURSIVE GatherSum(_, _, _)
\* the summed data bytes of the pages first .. first + n - 1
GatherSum(sz, first, n) ==
    IF n = 0 THEN 0 ELSE GatherSum(sz, first, n - 1) + sz[first + n - 1][2]

\* the bytes of a chunk buffer whose pages are first .. first + n - 1
GatherBfr(sz, first, n) ==
    [i \in 0..(GatherSlot(sz, first, first + n - 1) + MaxHdrSize
                 + Max(sz[first + n - 1][1], sz[first + n - 1][2]) - 1) |-> GatherByte(i)]

GatherInit ==
    /\ RleIdle
    /\ memFill = 0
    /\ col = Idle
    /\ comp_out = NoStatus
    /\ \E nc \in 1..MaxGatherChunks :
         \E np \in [0..(nc - 1) -> 1..MaxGatherPages], ic \in [0..(nc - 1) -> BOOLEAN],
            hs \in [0..(nc - 1) -> GatherHdrSizes] :
           \E sz \in [0..(PagesUpTo(np, nc) - 1) -> GatherSizes] :
             /\ \A i \in DOMAIN sz : ic[ChunkOfPage(np, i, 0)] => sz[i][2] <= sz[i][1]
             /\ chunks = [c \in 0..(nc - 1) |->
                            [start_row |-> PagesUpTo(np, c), num_rows |-> np[c],
                             first_page |-> PagesUpTo(np, c), num_pages |-> np[c],
                             bfr_size |-> GatherSum(sz, PagesUpTo(np, c), np[c]),
                             compressed_size |-> 0, is_compressed |-> ic[c],
                             fragments |-> <<>>]]
             /\ pages = [i \in DOMAIN sz |->
                           GatherInPage(ChunkOfPage(np, i, 0), i,
                                        PagesUpTo(np, ChunkOfPage(np, i, 0)), sz,
                                        hs[ChunkOfPage(np, i, 0)])]
             /\ ckbfr = [c \in 0..(nc - 1) |->
                           [data |-> GatherBfr(sz, PagesUpTo(np, c), np[c]),
                            comp |-> GatherBfr(sz, PagesUpTo(np, c), np[c]),
                            was |-> GatherBfr(sz, PagesUpTo(np, c), np[c])]]
    /\ bfr = <<>>
    /\ comp_in = NoStatus
    /\ done = {<<"EncodePageHeaders", b>> : b \in DOMAIN pages}
    /\ FragIdle

GatherNext == \E c \in DOMAIN chunks : GatherPages(c)

SpecGather == GatherInit /\ [][GatherNext]_vars

\* the destination buffer of chunk c
GatherDst(c) == IF chunks[c].is_compressed THEN ckbfr[c].comp ELSE ckbfr[c].data

\* the slot of a page in the buffer that gpuGatherPages reads
GatherSrc(pg) == IF chunks[pg.chunk_id].is_compressed THEN pg.compressed_data ELSE pg.page_data

RECURSIVE GatheredBefore(_, _)
\* the header and data bytes of the pages of chunk c in front of page k
GatheredBefore(c, k) ==
    IF k = chunks[c].first_page THEN 0
    ELSE GatheredBefore(c, k - 1) + pages[k - 1].hdr_size + pages[k - 1].max_data_size

\* page k of chunk c lies in the destination at the summed sizes of the pages in front of
\* it: its hdr_size header bytes, then its max_data_size data bytes, as its slot held them
PageGathered(c, k) ==
    /\ \A i \in 0..(pages[k].hdr_size - 1) :
         GatherDst(c)[GatheredBefore(c, k) + i] = ckbfr[c].was[GatherSrc(pages[k]) + i]
    /\ \A i \in 0..(pages[k].max_data_size - 1) :
         GatherDst(c)[GatheredBefore(c, k) + pages[k].hdr_size + i]
           = ckbfr[c].was[GatherSrc(pages[k]) + pages[k].max_hdr_size + i]

\* the pages of chunk c lie in the destination one behind the other, and compressed_size
\* is the length of the whole
ChunkGathered(c) ==
    /\ \A k \in OwnPages(chunks[c]) : PageGathered(c, k)
    /\ chunks[c].compressed_size
         = GatheredBefore(c, chunks[c].first_page + chunks[c].num_pages)

\* C12: once gpuGatherPages has run for a chunk, the chunk's destination buffer holds the
\* pages in page order without gaps, each as its header bytes followed by its data bytes,
\* and compressed_size is the length of the whole.
GatheredInOrder ==
    \A c \in DOMAIN chunks :
      <<"GatherPages", c>> \in done =>
        ChunkGathered(c)

\* the gathered chunks whose pages all kept to the bytes reserved for them
GatheredWithinSlots ==
    \A c \in DOMAIN chunks :
      (/\ <<"GatherPages", c>> \in done
       /\ \A k \in OwnPages(chunks[c]) :
            k + 1 \in OwnPages(chunks[c]) =>
              pages[k + 1].page_data - pages[k].page_data
                >= pages[k].max_hdr_size + pages[k].max_data_size)
        => ChunkGathered(c)

----------------------------------------------------------------------------
\* the 32-bit little-endian word at offset p of a page buffer
WordAt(m, p) ==
    MemAt(m, p) + 256 * MemAt(m, p + 1) + 65536 * MemAt(m, p + 2)
      + 16777216 * (MemAt(m, p + 3) % 128)

\* the valid rows of page pg
PageValidRows(pg) == {r \in pg.start_row..(pg.start_row + pg.num_rows - 1) : IsValid(col, r) = 1}

\* the first valid row of page pg
FirstValidRow(pg) == CHOOSE r \in PageValidRows(pg) : \A q \in PageValidRows(pg) : r <= q

\* page b is an encoded page with definition levels
LevelsEncoded(b) ==
    /\ <<"EncodePages", b>> \in done
    /\ pages[b].page_type # "DICTIONARY_PAGE"
    /\ col.level_bits % 16 # 0

\* C13: the data of a page with definition levels starts with a 4-byte little-endian length
\* that counts the level bytes behind it and not itself, and the value stream starts right
\* behind those level bytes: in a page of plain values the bytes of the first valid row lie
\* max_hdr_size + 4 + length bytes into the page's slot.
LevelLengthFramesValues ==
    \A b \in DOMAIN pages :
      (/\ LevelsEncoded(b)
       /\ col.physical_type # "BOOLEAN"
       /\ PageValidRows(pages[b]) # {})
        => \A k \in 0..(DtypeLen(col.physical_type) - 1) :
             MemAt(bfr[b].data, pages[b].max_hdr_size + 4 + WordAt(bfr[b].data, pages[b].max_hdr_size) + k)
               = ByteOf(ColumnData(col, FirstValidRow(pages[b])), k)

----------------------------------------------------------------------------
(***************************************************************************)
(* The header kernel on its own: one chunk of one or two pages of either   *)
(* page type, compressed or not, with sizes and row counts at the ends of  *)
(* the ranges that take one to five bytes as a varint.  A uint32_t field   *)
(* is held as the int32_t of the same bits, which is what cpw_put_int32 is *)
(* handed.  The launch has start_page = 0.                                 *)
(***************************************************************************)
DICTIONARY_PAGE == 2
MaxHdrPages == 2
HdrValues == {0, 63, 64, 8191, 8192, 1048575, 1048576, 134217727, 134217728, 2147483647,
              -2147483647 - 1, -1}
HdrPageTypes == {"DATA_PAGE", "DICTIONARY_PAGE"}

\* page i of the synthetic array: page 1 has the other page type
HdrPage(i, ty, size, rows) ==
    [num_fragments |-> 1, chunk_id |-> 0,
     page_type |-> IF i = 0 THEN ty ELSE CHOOSE o \in HdrPageTypes : o # ty,
     hdr_size |-> 0, max_hdr_size |-> MaxHdrSize, max_data_size |-> size, page_data |-> 0,
     start_row |-> 0, num_rows |-> rows]

HdrInit ==
    /\ RleIdle
    /\ memFill = 0
    /\ col = Idle
    /\ \E n \in 1..MaxHdrPages, ty \in HdrPageTypes, ic \in BOOLEAN,
          size \in HdrValues, rows \in HdrValues :
         /\ chunks = [c \in {0} |->
                        [start_row |-> 0, num_rows |-> 0, first_page |-> 0, num_pages |-> n,
                         bfr_size |-> 0, compressed_size |-> 0, is_compressed |-> ic,
                         fragments |-> <<>>]]
         /\ pages = [i \in 0..(n - 1) |-> HdrPage(i, ty, size, rows)]
         /\ IF ic
            THEN \E bw \in HdrValues :
                   comp_out = [i \in 0..(n - 1) |-> [bytes_written |-> bw, status |-> 0]]
            ELSE comp_out = NoStatus
         /\ bfr = [i \in 0..(n - 1) |-> [data |-> <<>>, comp |-> <<>>]]
    /\ ckbfr = <<>>
    /\ comp_in = NoStatus
    /\ done = {<<"InitPages", 0>>, <<"DecideCompression", 0>>}
                \cup {<<"EncodePages", b>> : b \in DOMAIN pages}
    /\ FragIdle

HdrNext == \E b \in DOMAIN pages : EncodePageHeaders(b)

SpecHdr == HdrInit /\ [][HdrNext]_vars

\* the header of len bytes at the start of the slot m as a reader sees it
HeaderFields(m, len) == ReadFields(m, len, 0, <<>>, <<0>>, {})

\* the slot that holds the header of page b in the page buffers bf
HeaderSlot(bf, b) == IF chunks[pages[b].chunk_id].is_compressed THEN bf[b].comp ELSE bf[b].data

\* the fields the header of page pg must hold, pg being the page before its header is written
HeaderExpected(pg, b) ==
    {<<(<<1>>), IF pg.page_type = "DATA_PAGE" THEN DATA_PAGE ELSE DICTIONARY_PAGE>>,
     <<(<<2>>), pg.max_data_size>>,
     <<(<<3>>), IF chunks[pg.chunk_id].is_compressed THEN comp_out[b].bytes_written
                ELSE pg.max_data_size>>}
    \cup (IF pg.page_type = "DATA_PAGE"
          THEN {<<(<<5, 1>>), pg.num_rows>>, <<(<<5, 2>>), PLAIN>>, <<(<<5, 3>>), RLE>>,
                <<(<<5, 4>>), RLE>>}
          ELSE {<<(<<7, 1>>), pg.num_rows>>, <<(<<7, 2>>), PLAIN>>})

\* block b of gpuEncodePageHeaders takes this step
HeaderStep(b) == <<"EncodePageHeaders", b>> \in done' /\ <<"EncodePageHeaders", b>> \notin done

\* the header read as h, of hdr_size bytes, is the header of the page pg of block b
HeaderAsClaimed(h, hdr_size, pg, b) ==
    h.ok /\ h.next = hdr_size /\ h.fields = HeaderExpected(pg, b)

\* C14: the header gpuEncodePageHeaders writes for a page reads back as the page's own page
\* type, its uncompressed and compressed data size, and the nested struct of its type
\* (field 5 with num_rows, PLAIN, RLE, RLE for a data page, field 7 with the value count and
\* PLAIN for a dictionary page), every struct closed by a stop byte within hdr_size bytes.
HeaderMatchesPage ==
    [][\A b \in DOMAIN pages :
         HeaderStep(b) =>
           HeaderAsClaimed(HeaderFields(HeaderSlot(bfr', b), pages'[b].hdr_size),
                           pages'[b].hdr_size, pages[b], b)]_vars

\* the same for the data pages alone
DataHeaderMatchesPage ==
    [][\A b \in DOMAIN pages :
         (HeaderStep(b) /\ pages[b].page_type = "DATA_PAGE") =>
           HeaderAsClaimed(HeaderFields(HeaderSlot(bfr', b), pages'[b].hdr_size),
                           pages'[b].hdr_size, pages[b], b)]_vars

\* C15: whatever 32-bit sizes and row count a page has, gpuEncodePageHeaders writes its
\* header from the first byte of the page's slot (page_data, or compressed_data in a
\* compressed chunk) and records an hdr_size of at most max_hdr_size, so that the header
\* stays in front of the page data at max_hdr_size bytes into the slot.
HeaderWithinSlot ==
    \A b \in DOMAIN pages :
      <<"EncodePageHeaders", b>> \in done =>
        /\ pages[b].hdr_size <= pages[b].max_hdr_size
        /\ DOMAIN HeaderSlot(bfr, b) = 0..(pages[b].hdr_size - 1)
        /\ HeaderFields(HeaderSlot(bfr, b), pages[b].hdr_size).next = pages[b].hdr_size

\* a header whose sizes and row count all take five bytes has been written
LongestHeaderWritten ==
    \E b \in DOMAIN pages :
      /\ <<"EncodePageHeaders", b>> \in done
      /\ pages[b].hdr_size = 29
      /\ pages[b].num_rows = 2147483647

----------------------------------------------------------------------------
(***************************************************************************)
(* The planner launched twice, as a writer does: first with a null page    *)
(* array to count the pages, then with a page array to fill.               *)
(***************************************************************************)
MaxCountFrags == 3

CountInit == PlanInitOf(MaxCountFrags)

CountNext ==
    \/ \E c \in DOMAIN chunks : CountPages(c)
    \/ \E c \in DOMAIN chunks : InitPages(c)

SpecCount == CountInit /\ [][CountNext]_vars

\* the block of chunk c of a launch with a null page array takes this step
CountStep(c) == <<"CountPages", c>> \in done' /\ <<"CountPages", c>> \notin done

\* the block of chunk c of a launch with a page array takes this step, after a counting launch
FillStep(c) ==
    <<"InitPages", c>> \in done' /\ <<"InitPages", c>> \notin done /\ <<"CountPages", c>> \in done

\* C16: gpuInitPages launched with a null page array stores no page record, and a launch
\* with a page array on the same chunk and fragments records the num_pages, bfr_size and
\* compressed_size that the counting launch recorded.
CountingAgrees ==
    [][\A c \in DOMAIN chunks :
         /\ CountStep(c) =>
              /\ pages' = pages
              /\ chunks'[c].num_pages
                   = Len(gpuInitPages(chunks[c], c, col.level_bits, TRUE).pages)
         /\ FillStep(c) =>
              /\ chunks'[c].num_pages = chunks[c].num_pages
              /\ chunks'[c].bfr_size = chunks[c].bfr_size
              /\ chunks'[c].compressed_size = chunks[c].compressed_size]_vars

\* a chunk of several pages has been counted and then filled
SeveralPagesCounted ==
    \E c \in DOMAIN chunks :
      /\ <<"CountPages", c>> \in done
      /\ <<"InitPages", c>> \in done
      /\ chunks[c].num_pages >= 2
      /\ \A k \in 1..chunks[c].num_pages : chunks[c].first_page + k - 1 \in DOMAIN pages

----------------------------------------------------------------------------
\* the slots of dict_data that list row r
DictDataSlots(r) ==
    {k \in 0..(fragOut.frag.num_dict_vals - 1) :
        FragStartRow(fragIn) + EntryAt(fragOut.dict_data, FragStartRow(fragIn) + k, fragIn.fill) = r}

\* row r owns its value: dict_data lists it once and its dict_index entry has bit 31 clear
IsOwner(r) == Cardinality(DictDataSlots(r)) = 1 /\ DictIndexAt(r) >= 0

\* row r is a duplicate: its dict_index entry is bit 31 and a valid row of the fragment that
\* holds the same value and owns it
IsDuplicate(r) ==
    \E q \in FragValidRows :
        /\ DictIndexAt(r) = DupeTag(q)
        /\ ColumnData(col, q) = ColumnData(col, r)
        /\ IsOwner(q)

\* C17: in a written fragment of a column with dictionary every valid row is either an
\* owner, listed once in dict_data with bit 31 of its dict_index entry clear, or a
\* duplicate, whose dict_index entry is the row of an owner of an equal value with bit 31
\* set, and never both.
RowsPartitioned ==
    (FragWritten /\ col.dict_index # NullPtr) =>
        \A r \in FragValidRows : IsOwner(r) # IsDuplicate(r)

----------------------------------------------------------------------------
RECURSIVE FragsBefore(_, _)
\* the fragments of the pages in front of page k of the page sequence ps
FragsBefore(ps, k) == IF k = 1 THEN 0 ELSE FragsBefore(ps, k - 1) + ps[k - 1].num_fragments

RECURSIVE SpanBytes(_, _, _)
\* the summed fragment_data_size of the fragments a .. j - 1
SpanBytes(frags, a, j) ==
    IF j <= a THEN 0 ELSE SpanBytes(frags, a, j - 1) + frags[j - 1].fragment_data_size

RECURSIVE SpanRows(_, _, _)
\* the summed num_rows of the fragments a .. j - 1
SpanRows(frags, a, j) == IF j <= a THEN 0 ELSE SpanRows(frags, a, j - 1) + frags[j - 1].num_rows

\* the threshold as stated: 512 KiB, 384 KiB for a page past half of the chunk's rows,
\* 256 KiB for a page past two thirds of them
ThresholdHalfTwoThirds(rows, total) ==
    IF rows * 3 > total * 2 THEN 256 * 1024
    ELSE IF rows * 2 > total THEN 384 * 1024
    ELSE 512 * 1024

\* the threshold with the limits a third and a half: 512 KiB, 384 KiB for a page with a
\* third of the chunk's rows or more, 256 KiB for a page with half of them or more
ThresholdThirdHalf(rows, total) ==
    IF rows * 2 >= total THEN 256 * 1024
    ELSE IF rows * 3 >= total THEN 384 * 1024
    ELSE 512 * 1024

\* the bytes of a page of the fragments a .. j - 1 and those of fragment j exceed limit
CutBefore(ck, a, j, limit) ==
    SpanBytes(ck.fragments, a, j) + ck.fragments[j].fragment_data_size > limit

\* page k of the pages ps of chunk ck takes its fragments without exceeding the threshold
\* and ends where the next fragment exceeds it, or is the last page and ends with the
\* chunk's last fragment
CutsFollow(ck, ps, k, limit(_, _)) ==
    LET a == FragsBefore(ps, k) + 1
        b == a + ps[k].num_fragments
    IN  /\ \A j \in (a + 1)..(b - 1) :
             ~CutBefore(ck, a, j, limit(SpanRows(ck.fragments, a, j), ck.num_rows))
        /\ IF k < Len(ps)
           THEN /\ b <= Len(ck.fragments)
                /\ CutBefore(ck, a, b, limit(SpanRows(ck.fragments, a, b), ck.num_rows))
           ELSE b = Len(ck.fragments) + 1

\* C18 as stated: gpuInitPages closes a page in front of a fragment exactly when the
\* fragments are exhausted or the page's bytes and the fragment's exceed the threshold of
\* 512 KiB, 384 KiB past half of the chunk's rows, 256 KiB past two thirds.
CutsAtHalfTwoThirds ==
    \A c \in DOMAIN chunks :
        (<<"InitPages", c>> \in done /\ FragmentsCoverChunk(chunks[c])) =>
            \A k \in 1..chunks[c].num_pages :
                CutsFollow(chunks[c], ChunkPages(chunks[c]), k, ThresholdHalfTwoThirds)

\* C18: gpuInitPages closes a page in front of a fragment exactly when the fragments are
\* exhausted or the page's bytes and the fragment's exceed the threshold of 512 KiB,
\* 384 KiB once the page holds a third of the chunk's rows, 256 KiB once it holds half.
CutsAtThirdHalf ==
    \A c \in DOMAIN chunks :
        (<<"InitPages", c>> \in done /\ FragmentsCoverChunk(chunks[c])) =>
            \A k \in 1..chunks[c].num_pages :
                CutsFollow(chunks[c], ChunkPages(chunks[c]), k, ThresholdThirdHalf)

\* a planned chunk with a page that was closed under a reduced threshold and a page that
\* took a fragment under the full one
ReducedThresholdCut ==
    \E c \in DOMAIN chunks :
        /\ <<"InitPages", c>> \in done
        /\ FragmentsCoverChunk(chunks[c])
        /\ \E k \in 1..(chunks[c].num_pages - 1) :
             LET ps == ChunkPages(chunks[c])
                 a == FragsBefore(ps, k) + 1
                 b == a + ps[k].num_fragments
             IN  /\ ps[k].num_fragments >= 2
                 /\ ~CutBefore(chunks[c], a, b, 512 * 1024)

----------------------------------------------------------------------------
(***************************************************************************)
(* gpuInitPageFragments and gpuInitPages one after the other: a column of  *)
(* a few rows in fragments of two rows, one chunk.  The blocks of          *)
(* gpuInitPageFragments run one after the other by rising blockIdx.y, each *)
(* writing its PageFragment into the array the chunk's fragments point to; *)
(* gpuInitPages runs when the last one has.                                *)
(***************************************************************************)
NullsRows == {2, 3, 4}
NullsFragSizes == {1, 2}
NullsValidity == {<<NullPtr, "all">>, <<"valid_map", "alt">>, <<"valid_map", "tail">>,
                  <<"valid_map", "none">>}

NullsInit ==
    /\ RleIdle
    /\ memFill = 0
    /\ \E ty \in {"INT32", "INT64"}, n \in NullsRows, v \in NullsValidity, dict \in FragDict,
          size \in NullsFragSizes :
         /\ col = [physical_type |-> ty, level_bits |-> 1, num_rows |-> n,
                   valid_map_base |-> v[1], vpat |-> v[2], dpat |-> "mod3", dict_index |-> dict]
         /\ fragIn = [fragment_size |-> size, max_num_rows |-> n, y |-> 0, fill |-> 0]
         /\ chunks = [c \in {0} |->
                        [start_row |-> 0, num_rows |-> n, first_page |-> 0, num_pages |-> 0,
                         bfr_size |-> 0, compressed_size |-> 0, is_compressed |-> FALSE,
                         fragments |-> <<>>]]
    /\ fragSt = [pc |-> "start", dict |-> <<>>]
    /\ fragOut = [dict_index |-> <<>>, dict_data |-> <<>>, frag |-> Idle]
    /\ pages = <<>>
    /\ bfr = <<>>
    /\ ckbfr = <<>>
    /\ comp_in = NoStatus
    /\ comp_out = NoStatus
    /\ done = {}

\* the number of blocks of the launch along y, the fragments of the column
NullsFragments == CeilDiv(fragIn.max_num_rows, fragIn.fragment_size)

\* the block's PageFragment is in the fragment array; the next block starts
NullsNextBlock ==
    /\ fragSt.pc = "done"
    /\ Len(chunks[0].fragments) = fragIn.y
    /\ chunks' = [chunks EXCEPT ![0].fragments = Append(@, fragOut.frag)]
    /\ IF fragIn.y + 1 < NullsFragments
       THEN /\ fragIn' = [fragIn EXCEPT !.y = @ + 1]
            /\ fragSt' = [pc |-> "start", dict |-> <<>>]
       ELSE UNCHANGED <<fragIn, fragSt>>
    /\ UNCHANGED <<col, pages, bfr, ckbfr, comp_out, comp_in, done, fragOut>>
    /\ UNCHANGED rleVars

\* gpuInitPages once the fragments of the chunk are written
NullsPlan ==
    /\ Len(chunks[0].fragments) = NullsFragments
    /\ InitPages(0)

NullsNext ==
    \/ FragStart
    \/ FragScanPass
    \/ FragHashSum
    \/ FragInsertPass
    \/ FragDedupPass
    \/ FragFinish
    \/ NullsNextBlock
    \/ NullsPlan

SpecNulls == NullsInit /\ [][NullsNext]_vars

\* fragment j of the chunk has rows and none of them is valid
AllNullFragment(j) ==
    /\ chunks[0].fragments[j].num_rows > 0
    /\ \A r \in ((j - 1) * fragIn.fragment_size)..((j - 1) * fragIn.fragment_size
                                                    + chunks[0].fragments[j].num_rows - 1) :
         IsValid(col, r) = 0

\* an all-null fragment has no values and no bytes
NullFragmentEmpty ==
    \A j \in 1..Len(chunks[0].fragments) :
        AllNullFragment(j) =>
            /\ chunks[0].fragments[j].non_nulls = 0
            /\ chunks[0].fragments[j].fragment_data_size = 0

\* the fragments in the pages of the planned chunk
PlannedFragments == FragsBefore(ChunkPages(chunks[0]), chunks[0].num_pages + 1)

\* C19 as stated: a fragment with rows that are all null has non_nulls = 0 and
\* fragment_data_size = 0, and the loop of gpuInitPages ends at it: no page holds a fragment
\* behind it.
NullFragmentEndsPlanning ==
    /\ NullFragmentEmpty
    /\ <<"InitPages", 0>> \in done =>
         \A j \in 1..Len(chunks[0].fragments) : AllNullFragment(j) => PlannedFragments <= j

\* C19: a fragment with rows that are all null has non_nulls = 0 and fragment_data_size = 0,
\* and the loop of gpuInitPages goes on behind it: the pages hold all fragments and all rows
\* of the chunk.
NullFragmentIsPlanned ==
    /\ NullFragmentEmpty
    /\ <<"InitPages", 0>> \in done =>
         /\ PlannedFragments = Len(chunks[0].fragments)
         /\ SumRows(ChunkPages(chunks[0]), chunks[0].num_pages) = chunks[0].num_rows

\* a planned chunk whose first fragment is all null and is followed by a fragment with values
NullFragmentPlanned ==
    /\ <<"InitPages", 0>> \in done
    /\ Len(chunks[0].fragments) >= 2
    /\ AllNullFragment(1)
    /\ chunks[0].fragments[2].non_nulls > 0

----------------------------------------------------------------------------
\* entry p of the hash-sorted list is a duplicate: it is not the first entry of the bucket
\* of its hash and holds the value of that entry (lines 288-327)
ListedDupe(p) ==
    LET row == FragStartRow(fragIn) + Shr(SortedEntry(p), INIT_HASH_BITS)
        ref == FragStartRow(fragIn)
                 + Shr(SortedEntry(BucketStart(SortedEntry(p) % Pow2(INIT_HASH_BITS))),
                       INIT_HASH_BITS)
    IN  ref # row /\ ColumnData(col, row) = ColumnData(col, ref)

\* the positions of the hash-sorted list whose entries are not duplicates
ListedOwners == {p \in 0..(fragOut.frag.non_nulls - 1) : ~ListedDupe(p)}

\* dict_data holds the rows of the positions ps of the list, in the order of the list
ListedInOrder(ps) ==
    /\ fragOut.frag.num_dict_vals = Cardinality(ps)
    /\ \A p \in ps :
          DictDataAt(Cardinality({q \in ps : q < p})) = Shr(SortedEntry(p), INIT_HASH_BITS)

\* C20 as stated: the rows listed in the fragment's part of dict_data rise with the slot.
DictDataAscendingRows ==
    (FragWritten /\ col.dict_index # NullPtr) =>
        \A k \in 0..(fragOut.frag.num_dict_vals - 2) : DictDataAt(k) < DictDataAt(k + 1)

\* C20: the fragment's part of dict_data, dict_data[start_row .. start_row + num_dict_vals),
\* holds the rows of the entries of the hash-sorted list that are not duplicates, in the
\* order of the list: the k-th of these entries is in slot k.
DictDataInListOrder ==
    (FragWritten /\ col.dict_index # NullPtr) => ListedInOrder(ListedOwners)

\* a written fragment of three valid rows of falling hash: dict_data lists row 2, 1, 0
FallingHashListed ==
    /\ FragWritten
    /\ col.dict_index # NullPtr
    /\ col.dpat = "down"
    /\ fragOut.frag.num_dict_vals = 3
    /\ DictDataAt(0) = 2
    /\ DictDataAt(1) = 1
    /\ DictDataAt(2) = 0

----------------------------------------------------------------------------
\* the rows whose dict_index entry carries the duplicate tag, bit 31
TaggedRows == {r \in DOMAIN fragOut.dict_index : fragOut.dict_index[r] < 0}

\* the encoded length of a value of the column: 8 bytes for INT64, 4 for INT32
EncodedLen == IF DtypeLen(col.physical_type) = 8 THEN 8 ELSE 4

\* C21: a written fragment of a column with dictionary has num_dict_vals = non_nulls minus
\* the number of rows tagged as duplicates and dict_data_size = fragment_data_size minus the
\* encoded bytes of those rows, so neither exceeds non_nulls and fragment_data_size; for a
\* column without dict_index both are 0.
DictStatsCounted ==
    FragWritten =>
        IF col.dict_index # NullPtr
        THEN /\ fragOut.frag.num_dict_vals = fragOut.frag.non_nulls - Cardinality(TaggedRows)
             /\ fragOut.frag.dict_data_size =
                   fragOut.frag.fragment_data_size - EncodedLen * Cardinality(TaggedRows)
             /\ fragOut.frag.num_dict_vals <= fragOut.frag.non_nulls
             /\ fragOut.frag.dict_data_size <= fragOut.frag.fragment_data_size
        ELSE /\ fragOut.frag.num_dict_vals = 0
             /\ fragOut.frag.dict_data_size = 0

----------------------------------------------------------------------------
\* the loop of lines 243-277 has run over all staged entries of a column with dictionary
SlotsClaimed == fragSt.pc \in {"dedup", "finish", "done"} /\ col.dict_index # NullPtr

\* the valid rows of the fragment the block works on
ClaimedRows ==
    {r \in FragStartRow(fragIn)..(FragStartRow(fragIn) + fragSt.frag.num_rows - 1) :
        r < col.num_rows /\ (col.valid_map_base # NullPtr => ValidBit(col, r) = 1)}

\* the entry staged for row r: its index in the fragment tagged with its hash
StagedEntry(r) == Shl(r - FragStartRow(fragIn), INIT_HASH_BITS) + FragHash(col, r)

\* the positions of the list s->dict below non_nulls that hold entry e
ListSlots(e) == {p \in 0..(fragSt.frag.non_nulls - 1) : EntryAt(fragSt.dict, p, fragIn.fill) = e}

\* the number of the rows rs whose hash is below h
HashesBelow(rs, h) == Cardinality({r \in rs : FragHash(col, r) < h})

\* the list holds every row of rs once and nothing else, bucket by bucket
ListGrouped(rs) ==
    /\ Cardinality(rs) = fragSt.frag.non_nulls
    /\ \A r \in rs :
          /\ Cardinality(ListSlots(StagedEntry(r))) = 1
          /\ \A p \in ListSlots(StagedEntry(r)) :
                /\ HashesBelow(rs, FragHash(col, r)) <= p
                /\ p < HashesBelow(rs, FragHash(col, r) + 1)

\* C22: once the slots are claimed, under every order of the claims and every outcome of
\* the swaps, s->dict[0 .. non_nulls) holds the staged entry of every valid row exactly once,
\* and the entries of hash h lie in the slots from the number of entries of lower hash up
\* to the number of entries of hash h or lower.
ListIsGroupedPermutation == SlotsClaimed => ListGrouped(ClaimedRows)

----------------------------------------------------------------------------
\* the header byte of a literal run: odd and at most 0x7f
LitHeader(h) == h % 2 = 1 /\ h <= MaxLitRun

\* literal run r of the last call (where its header went, the header, rle_out behind it):
\* the run takes the header byte and nbits bytes for each of its header >> 1 groups
LitRunFramed(r) == r[3] = r[1] + 1 + rin.nbits * (r[2] \div 2)

\* the headers of the literal runs that RleEncode writes are odd and at most 0x7f
LitHeadersCapped ==
    rcalls > 0 => \A i \in 1..Len(rlast.lits) : LitHeader(rlast.lits[i][2])

\* C23: every literal run that a call of RleEncode completes has an odd header byte of at
\* most 0x7f, 63 groups of 8 values, and its packed bytes take the nbits * (header >> 1)
\* bytes behind the header, where the next run begins.
LitRunsFramed ==
    rcalls > 0 =>
        \A i \in 1..Len(rlast.lits) :
            LitHeader(rlast.lits[i][2]) /\ LitRunFramed(rlast.lits[i])

\* C24: when a call of RleEncode without flush has returned, at most 24 of the input
\* values are not yet taken: numvals - rle_pos <= 24.
WithheldAtMost24 ==
    (rcalls > 0 /\ ~rlast.flush) => s.rle_numvals - s.rle_pos <= 24

\* when a call of RleEncode with flush has returned, all values are taken and no run is open
FlushTakesAll ==
    (rcalls > 0 /\ rlast.flush) => (s.rle_pos = s.rle_numvals /\ s.rle_run = 0)

----------------------------------------------------------------------------
\* repeat run r of the last call (the cursor when it was found, its offset from the cursor,
\* its length): the input positions it takes
RptFirst(r) == r[1] + r[2]
RptEnd(r) == r[1] + r[2] + r[3]

\* the literal groups p and the repeat run r share no input position
GroupsApart(p, r) == p[2] <= RptFirst(r) \/ RptEnd(r) <= p[1]

\* the literal groups p in front of repeat run r are whole groups of 8 values
GroupsWhole(p, r) == p[2] = RptFirst(r) => (p[2] - p[1]) % 8 = 0

\* C26: every repeat run that a call of RleEncode starts lies a multiple of 8 values behind
\* the input cursor, the literal groups packed in front of it are whole groups of 8 values,
\* and no input position is both in a literal group and in the repeat run.
RunStartsAligned ==
    rcalls > 0 =>
        \A i \in 1..Len(rlast.rpts) :
            /\ rlast.rpts[i][2] % 8 = 0
            /\ \A j \in 1..Len(rlast.packs) :
                  /\ GroupsApart(rlast.packs[j], rlast.rpts[i])
                  /\ GroupsWhole(rlast.packs[j], rlast.rpts[i])

\* a call that packed literal groups and started a repeat run right behind them
RunBehindLiterals ==
    /\ rcalls > 0
    /\ \E i \in 1..Len(rlast.rpts), j \in 1..Len(rlast.packs) :
          /\ rlast.rpts[i][2] > 0
          /\ rlast.packs[j][2] = RptFirst(rlast.rpts[i])

----------------------------------------------------------------------------
(***************************************************************************)
(* The accesses of the lanes of a gpuEncodePages block to the shared state *)
(* while it encodes levels or dictionary values with RleEncode.  An access *)
(* is a write or a read of fields of page_enc_state_s by a set of lanes,   *)
(* or a __syncthreads; each carries its line.  Three lanes stand for the   *)
(* block: lane 0, lane 1 of the same warp and lane 32 of another warp.     *)
(* bar.dirty holds, per field, the lanes that wrote it since the last      *)
(* barrier; a read of a field that another lane wrote since the last       *)
(* barrier is recorded in bar.raced.                                       *)
(***************************************************************************)
BarLanes == {0, 1, 32}
BarLeaders == {0, 32}
BarFirstWarp == {0, 1}
BarFields == {"vals", "rpt_map", "rle_lit_count", "rle_rpt_count", "run_val", "rle_out",
              "rle_pos", "rle_run", "rle_numvals", "scratch_red"}

BarWrite(fields, who, line) == [op |-> "write", fields |-> fields, who |-> who, line |-> line]
BarRead(fields, who, line) == [op |-> "read", fields |-> fields, who |-> who, line |-> line]
BarSync(line) == [op |-> "sync", fields |-> {}, who |-> BarLanes, line |-> line]

\* lines 744-750 and 789-799: lane 0 resets the run state, then a barrier
BarReset(path) ==
    IF path = "levels"
    THEN <<BarWrite({"rle_run", "rle_pos", "rle_numvals", "rle_out"}, {0}, 745), BarSync(750)>>
    ELSE <<BarWrite({"rle_run", "rle_pos", "rle_numvals", "rle_out"}, {0}, 791), BarSync(799)>>

\* lines 752-757 and 811-827: the caller fills the ring; RleEncode reads rle_pos and rle_run
BarCaller(path) ==
    (IF path = "levels"
     THEN <<BarRead({"rle_numvals", "rle_pos"}, BarLanes, 752),
            BarWrite({"vals"}, BarLanes, 756),
            BarSync(757)>>
     ELSE <<BarWrite({"scratch_red"}, BarLeaders, 814),
            BarSync(816),
            BarRead({"scratch_red"}, BarFirstWarp, 818),
            BarWrite({"scratch_red"}, BarFirstWarp, 818),
            BarSync(820),
            BarRead({"scratch_red", "rle_numvals"}, BarLanes, 822),
            BarWrite({"vals"}, BarLanes, 826)>>)
    \o <<BarRead({"rle_pos", "rle_run"}, BarLanes, 550)>>

\* the passes of the loop of RleEncode: out, the open repeat run is output; pack, literal
\* groups are packed; close, the literal run is completed; rpt, the lane that stores run_val
\* when a repeat run starts (-1: none starts); last, how the pass ends
BarPasses ==
    {[out |-> FALSE, pack |-> FALSE, close |-> FALSE, rpt |-> -1, last |-> "loop"],
     [out |-> TRUE,  pack |-> FALSE, close |-> FALSE, rpt |-> -1, last |-> "loop"],
     [out |-> FALSE, pack |-> TRUE,  close |-> FALSE, rpt |-> -1, last |-> "loop"],
     [out |-> FALSE, pack |-> TRUE,  close |-> TRUE,  rpt |-> -1, last |-> "loop"],
     [out |-> FALSE, pack |-> TRUE,  close |-> FALSE, rpt |-> -1, last |-> "more_data"],
     [out |-> FALSE, pack |-> FALSE, close |-> FALSE, rpt |-> -1, last |-> "more_data"],
     [out |-> FALSE, pack |-> TRUE,  close |-> TRUE,  rpt |-> -1, last |-> "more_data"],
     [out |-> FALSE, pack |-> TRUE,  close |-> TRUE,  rpt |-> 32, last |-> "loop"],
     [out |-> FALSE, pack |-> FALSE, close |-> TRUE,  rpt |-> 0,  last |-> "loop"],
     [out |-> FALSE, pack |-> FALSE, close |-> FALSE, rpt |-> 0,  last |-> "loop"],
     [out |-> FALSE, pack |-> FALSE, close |-> FALSE, rpt |-> 0,  last |-> "rpt_end"],
     [out |-> FALSE, pack |-> TRUE,  close |-> TRUE,  rpt |-> 32, last |-> "rpt_end_flush"]}

\* lines 554-703: the accesses of one pass of the loop
BarPass(k) ==
    <<BarRead({"vals"}, BarLanes, 555),
      BarWrite({"rpt_map"}, BarLeaders, 559),
      BarSync(561),
      BarRead({"rpt_map"}, BarFirstWarp, 564),
      BarWrite({"rle_lit_count", "rle_rpt_count"}, {0}, 572),
      BarSync(611),
      BarRead({"rle_lit_count", "rle_rpt_count"}, BarLanes, 612)>>
    \o (IF k.out THEN <<BarRead({"run_val", "rle_out"}, {0}, 626),
                        BarWrite({"rle_out"}, {0}, 633),
                        BarSync(636)>>
        ELSE <<>>)
    \o (IF k.pack THEN <<BarRead({"rle_out"}, BarLanes, 655)>> ELSE <<>>)
    \o (IF k.close THEN <<BarSync(662),
                          BarRead({"rle_out"}, {0}, 665),
                          BarWrite({"rle_out"}, {0}, 668)>>
        ELSE <<>>)
    \o (IF k.rpt >= 0 /\ k.last # "more_data"
        THEN <<BarRead({"rle_lit_count"}, BarLanes, 678), BarWrite({"run_val"}, {k.rpt}, 679)>>
        ELSE <<>>)
    \o (IF k.last \in {"rpt_end", "rpt_end_flush"} THEN <<BarSync(685)>> ELSE <<>>)
    \o (IF k.last = "rpt_end_flush"
        THEN <<BarRead({"run_val", "rle_out"}, {0}, 691), BarWrite({"rle_out"}, {0}, 697)>>
        ELSE <<>>)
    \o (IF k.last = "loop" THEN <<BarSync(703)>> ELSE <<>>)

\* lines 705-709, and the caller's barrier behind the call (lines 759 and 829)
BarExit(path) ==
    <<BarWrite({"rle_run", "rle_pos", "rle_numvals"}, {0}, 706),
      BarSync(IF path = "levels" THEN 759 ELSE 829)>>

\* bounds: the batches of a page and the passes of the loop in one call
MaxBarBatches == 2
MaxBarPasses == 2

BarInit ==
    /\ rin = Idle /\ s = Idle /\ mem = <<>> /\ rcalls = 0 /\ rlast = Idle /\ memFill = 0
    /\ PageIdle
    /\ FragIdle
    /\ \E path \in {"levels", "values"} :
         bar = [path |-> path, at |-> "caller", todo |-> BarReset(path),
                dirty |-> [f \in BarFields |-> {}], raced |-> {}, batches |-> 0, passes |-> 0]

\* the lanes other than the readers who that wrote field f since the last barrier
BarUnsynced(f, who) == {w \in bar.dirty[f] : \E r \in who : r # w[1]}

\* the block performs its next access
BarStep ==
    /\ bar.todo # <<>>
    /\ \E e \in {Head(bar.todo)} :
         bar' = [bar EXCEPT
            !.todo = Tail(@),
            !.dirty = CASE e.op = "sync"  -> [f \in BarFields |-> {}]
                        [] e.op = "write" -> [f \in BarFields |->
                                                 IF f \in e.fields
                                                 THEN @[f] \cup {<<w, e.line>> : w \in e.who}
                                                 ELSE @[f]]
                        [] OTHER -> @,
            !.raced = IF e.op = "read"
                      THEN @ \cup {<<f, e.line, w[2]>> :
                                      f \in {g \in e.fields : BarUnsynced(g, e.who) # {}},
                                      w \in UNION {BarUnsynced(g, e.who) : g \in e.fields}}
                      ELSE @]
    /\ UNCHANGED <<rin, s, mem, memFill, rcalls, rlast>>
    /\ UNCHANGED pageVars
    /\ UNCHANGED fragVars

\* the caller's loop goes into its next batch and calls RleEncode
BarBatch ==
    /\ bar.todo = <<>> /\ bar.at = "caller" /\ bar.batches < MaxBarBatches
    /\ bar' = [bar EXCEPT !.todo = BarCaller(bar.path), !.at = "loop",
                          !.batches = @ + 1, !.passes = 0]
    /\ UNCHANGED <<rin, s, mem, memFill, rcalls, rlast>>
    /\ UNCHANGED pageVars
    /\ UNCHANGED fragVars

\* rle_pos < numvals: one more pass of the loop of RleEncode
BarLoop ==
    /\ bar.todo = <<>> /\ bar.at = "loop" /\ bar.passes < MaxBarPasses
    /\ \E k \in BarPasses :
         bar' = [bar EXCEPT !.todo = BarPass(k),
                            !.at = IF k.last = "loop" THEN "loop" ELSE "exit",
                            !.passes = @ + 1]
    /\ UNCHANGED <<rin, s, mem, memFill, rcalls, rlast>>
    /\ UNCHANGED pageVars
    /\ UNCHANGED fragVars

\* the loop is left, by its condition or by a break; lane 0 stores the locals back
BarReturn ==
    /\ bar.todo = <<>> /\ bar.at \in {"loop", "exit"}
    /\ bar' = [bar EXCEPT !.todo = BarExit(bar.path), !.at = "caller"]
    /\ UNCHANGED <<rin, s, mem, memFill, rcalls, rlast>>
    /\ UNCHANGED pageVars
    /\ UNCHANGED fragVars

BarNext ==
    \/ BarStep
    \/ BarBatch
    \/ BarLoop
    \/ BarReturn

SpecBarrier == BarInit /\ [][BarNext]_vars

\* C27: in the level loop and in the value loop of gpuEncodePages with RleEncode, no lane
\* reads a field of the shared state that another lane wrote since the last barrier.
ReadsBehindBarrier == bar.raced = {}

\* the same for the definition levels alone
LevelReadsBehindBarrier == bar.path = "levels" => bar.raced = {}

----------------------------------------------------------------------------
(***************************************************************************)
(* The slots gpuInitPages gives the pages of a chunk in the chunk's        *)
(* uncompressed and compressed buffers (offsets from uncompressed_bfr and  *)
(* compressed_bfr).                                                        *)
(***************************************************************************)
RECURSIVE SlotSum(_, _, _)
\* the summed slot sizes of the first n pages of ps, compressed or uncompressed
SlotSum(ps, n, compressed) ==
    IF n = 0 THEN 0
    ELSE SlotSum(ps, n - 1, compressed) + ps[n].max_hdr_size
           + (IF compressed THEN GetMaxCompressedBfrSize(ps[n].max_data_size)
              ELSE ps[n].max_data_size)

\* C28: once gpuInitPages has run for a chunk, page k of the chunk has the uncompressed slot
\* at the summed max_hdr_size + max_data_size of the pages before it and the compressed slot
\* at their summed max_hdr_size + GetMaxCompressedBfrSize(max_data_size); each slot ends
\* where the next begins or before, and bfr_size and compressed_size are the sums over all
\* the pages of the chunk.
PageSlotsPacked ==
    \A c \in DOMAIN chunks :
        <<"InitPages", c>> \in done =>
            LET ps == ChunkPages(chunks[c])
            IN  /\ \A k \in 1..Len(ps) :
                     /\ ps[k].page_data = SlotSum(ps, k - 1, FALSE)
                     /\ ps[k].compressed_data = SlotSum(ps, k - 1, TRUE)
                /\ \A k \in 1..(Len(ps) - 1) :
                     /\ ps[k].page_data + ps[k].max_hdr_size + ps[k].max_data_size
                          <= ps[k + 1].page_data
                     /\ ps[k].compressed_data + ps[k].max_hdr_size
                          + GetMaxCompressedBfrSize(ps[k].max_data_size)
                          <= ps[k + 1].compressed_data
                /\ chunks[c].bfr_size = SlotSum(ps, Len(ps), FALSE)
                /\ chunks[c].compressed_size = SlotSum(ps, Len(ps), TRUE)

\* a planned chunk of three pages or more with data in two of them, with definition levels
PageSlotsOfThree ==
    \E c \in DOMAIN chunks :
        /\ <<"InitPages", c>> \in done
        /\ col.level_bits = 1
        /\ chunks[c].num_pages >= 3
        /\ Cardinality({k \in 1..chunks[c].num_pages :
                           ChunkPages(chunks[c])[k].max_data_size > 9}) >= 2

----------------------------------------------------------------------------
(***************************************************************************)
(* The compressor jobs: a column of one or two chunks is planned and       *)
(* encoded with the arrays comp_in and comp_out of the launch (one entry   *)
(* per page, start_page = 0), the compressor completes some of the jobs    *)
(* and gpuDecideCompression decides.                                       *)
(***************************************************************************)
JobRows == {1, 2, 130}
JobFragSizes == {1, 100}
JobValidity == {<<0, NullPtr, "all">>, <<1, "bitmap", "alt">>}
JobBytesWritten == {3, 600}
JobStatus == {0, 1}

\* the entries of the arrays before the launch
JobCleared == [srcDevice |-> 0, srcSize |-> 0, dstDevice |-> 0, dstSize |-> 0]
StatusCleared == [bytes_written |-> 0, status |-> 0]

JobsInit ==
    /\ RleIdle
    /\ memFill = 0
    /\ \E n \in JobRows, v \in JobValidity :
         col = [physical_type |-> "INT32", level_bits |-> v[1], num_rows |-> n,
                valid_map_base |-> v[2], vpat |-> v[3], dpat |-> "mod3"]
    /\ \E fs \in JobFragSizes :
         /\ CeilDiv(col.num_rows, fs) <= MaxChunks
         /\ chunks = [k \in 0..(CeilDiv(col.num_rows, fs) - 1) |->
                        [ChunkOf(col, fs, 1, k) EXCEPT !.first_page = PagesBefore(col, fs, 1, k)]]
         /\ \E given \in SUBSET {"comp_in", "comp_out"} :
              /\ comp_in = IF "comp_in" \in given
                           THEN [b \in 0..(PagesBefore(col, fs, 1, CeilDiv(col.num_rows, fs)) - 1)
                                    |-> JobCleared]
                           ELSE NoStatus
              /\ comp_out = IF "comp_out" \in given
                            THEN [b \in 0..(PagesBefore(col, fs, 1, CeilDiv(col.num_rows, fs)) - 1)
                                     |-> StatusCleared]
                            ELSE NoStatus
    /\ pages = <<>>
    /\ bfr = <<>>
    /\ ckbfr = <<>>
    /\ done = {}
    /\ FragIdle

\* the compressor completes the job of page b: it reports a status and the bytes written
Compress(b) ==
    /\ b \in DOMAIN pages
    /\ <<"EncodePages", b>> \in done
    /\ <<"Compress", b>> \notin done
    /\ \A c \in DOMAIN chunks : <<"DecideCompression", c>> \notin done
    /\ comp_in # NoStatus /\ comp_out # NoStatus
    /\ \E bw \in JobBytesWritten, st \in JobStatus :
         /\ bw <= comp_in[b].dstSize
         /\ comp_out' = [comp_out EXCEPT ![b] = [bytes_written |-> bw, status |-> st]]
    /\ done' = done \cup {<<"Compress", b>>}
    /\ UNCHANGED <<col, chunks, pages, bfr, ckbfr, comp_in>>
    /\ UNCHANGED rleVars
    /\ UNCHANGED fragVars

JobsNext ==
    \/ \E c \in DOMAIN chunks : InitPages(c)
    \/ \E b \in DOMAIN pages : EncodePages(b)
    \/ \E b \in DOMAIN pages : Compress(b)
    \/ \E c \in DOMAIN chunks : DecideCompression(c)

SpecJobs == JobsInit /\ [][JobsNext]_vars

\* once gpuEncodePages has run for page b with the arrays given, the job of the page is the
\* page's data behind its header slot with the actual data size, the destination behind the
\* header slot of its compressed slot with the capacity of the reserved maximum, and until
\* the compressor completes the job its status is non-zero with no bytes written
JobsFilled ==
    \A b \in DOMAIN pages :
        <<"EncodePages", b>> \in done =>
            /\ comp_in # NoStatus =>
                 /\ comp_in[b].srcDevice = pages[b].page_data + pages[b].max_hdr_size
                 /\ comp_in[b].srcSize = pages[b].max_data_size
                 /\ comp_in[b].dstDevice = pages[b].compressed_data + pages[b].max_hdr_size
                 /\ pages[b].compressed_data + pages[b].max_hdr_size + comp_in[b].dstSize
                      = IF b + 1 < chunks[pages[b].chunk_id].first_page
                                     + chunks[pages[b].chunk_id].num_pages
                        THEN pages[b + 1].compressed_data
                        ELSE gpuInitPages([chunks[pages[b].chunk_id] EXCEPT !.num_pages = 0],
                                          pages[b].chunk_id, col.level_bits, FALSE).comp_page_offset
            /\ (comp_out # NoStatus /\ <<"Compress", b>> \notin done) =>
                 /\ comp_out[b].bytes_written = 0
                 /\ comp_out[b].status # 0

\* C29: gpuEncodePages leaves every page's job filled and not completed, and a decided
\* chunk with a page whose job the compressor never completed is not marked compressed.
UncompletedJobFallsBack ==
    /\ JobsFilled
    /\ \A c \in DOMAIN chunks :
         (/\ <<"DecideCompression", c>> \in done
          /\ \E b \in OwnPages(chunks[c]) : <<"Compress", b>> \notin done)
            => ~chunks[c].is_compressed

\* the same for the chunk whose pages are the first of the page array
FirstChunkFallsBack ==
    \A c \in DOMAIN chunks :
         (/\ <<"DecideCompression", c>> \in done
          /\ chunks[c].first_page = 0
          /\ \E b \in OwnPages(chunks[c]) : <<"Compress", b>> \notin done)
            => ~chunks[c].is_compressed

----------------------------------------------------------------------------
(***************************************************************************)
(* The value stream of a plain page: the bytes between the end of the      *)
(* definition levels and s->cur at line 895.                               *)
(***************************************************************************)
\* the definition levels of page b when the ring held fill at the start
LevelsOf(b, fill) ==
    EncDefLevels([st |-> EncState(pages[b], fill), mem |-> <<>>], pages[b], col)

\* the offset in the page buffer where the values of page b begin: s->cur behind the
\* definition levels that the buffer holds in front of it
ValueStarts(b) ==
    {x.st.cur : x \in {y \in {LevelsOf(b, fill) : fill \in {0, 65535}} :
                          \A i \in DOMAIN y.mem :
                              i < y.st.cur => MemAt(bfr[b].data, i) = y.mem[i]}}

\* the offset where the data written for page b ends
ValueEnd(b) == pages[b].max_hdr_size + pages[b].max_data_size

RECURSIVE RowBytes(_, _, _)
\* the little-endian values of the valid rows among rows row .. row + n - 1, in row order
RowBytes(c, row, n) ==
    IF n = 0 THEN <<>>
    ELSE IF n = 1
    THEN (IF IsValid(c, row) = 1
          THEN LEBytes(ColumnData(c, row), DtypeLen(c.physical_type))
          ELSE <<>>)
    ELSE RowBytes(c, row, n \div 2) \o RowBytes(c, row + n \div 2, n - n \div 2)

RECURSIVE FragmentsBefore(_, _)
\* the fragments of the pages of the chunk in front of its page k
FragmentsBefore(ps, k) == IF k = 1 THEN 0 ELSE FragmentsBefore(ps, k - 1) + ps[k - 1].num_fragments

\* the summed fragment_data_size of the fragments of page b
PageFragmentBytes(b) ==
    LET ck == chunks[pages[b].chunk_id]
        first == FragmentsBefore(ChunkPages(ck), b - ck.first_page + 1)
    IN  OwnSum([j \in 1..Len(ck.fragments) |-> ck.fragments[j].fragment_data_size],
               first + 1, pages[b].num_fragments)

\* the value stream of page b holds the values of the valid rows of the page and no more
ValueStreamOfPage(b) ==
    /\ ValueStarts(b) # {}
    /\ \A e \in {RowBytes(col, pages[b].start_row, pages[b].num_rows)}, from \in ValueStarts(b) :
         /\ ValueEnd(b) - from = Len(e)
         /\ \A i \in 1..Len(e) : MemAt(bfr[b].data, from + i - 1) = e[i]
         /\ ValueEnd(b) - from = PageFragmentBytes(b)

\* C30: the value stream of an encoded page of a plain (non-dictionary) column is the
\* values of the valid rows of [start_row, start_row + num_rows) in row order, 4 or 8 bytes
\* each, and as long as the summed data sizes of the page's fragments.
ValueStreamIsPageRows ==
    \A b \in DOMAIN pages :
        (<<"EncodePages", b>> \in done /\ DictBits(col.physical_type) = 0) => ValueStreamOfPage(b)

\* the same for the pages whose last batch ends with the column or is a full batch
ValueStreamOfClosedPages ==
    \A b \in DOMAIN pages :
        (/\ <<"EncodePages", b>> \in done
         /\ DictBits(col.physical_type) = 0
         /\ \/ pages[b].start_row + pages[b].num_rows >= col.num_rows
            \/ pages[b].num_rows % EncodeThreads = 0)
            => ValueStreamOfPage(b)

----------------------------------------------------------------------------
(***************************************************************************)
(* The ring s->vals between gpuEncodePages and RleEncode: the block of one *)
(* page of a BOOLEAN column fills the ring batch by batch, for the         *)
(* definition levels (rin.path = "levels") or for the values               *)
(* (rin.path = "values"), and calls RleEncode behind each fill.  rlast     *)
(* holds the arguments of the call that the fill prepared and cur_row.     *)
(***************************************************************************)
RingRows == {1, 100, 128, 130, 300, 600}
RingStartRows == {0, 3}
RingRowsBehind == {0, 5}
RingValidity == {<<NullPtr, "all">>, <<"bitmap", "alt">>, <<"bitmap", "tail">>, <<"bitmap", "none">>}

RingInit ==
    /\ rin \in [path : {"levels", "values"}]
    /\ \E sr \in RingStartRows, n \in RingRows, more \in RingRowsBehind, v \in RingValidity :
         /\ col = [physical_type |-> "BOOLEAN", level_bits |-> 1, num_rows |-> sr + n + more,
                   valid_map_base |-> v[1], vpat |-> v[2], dpat |-> "bool"]
         /\ pages = [b \in {0} |->
                       [num_fragments |-> 1, chunk_id |-> 0, page_type |-> "DATA_PAGE",
                        hdr_size |-> 0, max_hdr_size |-> MaxHdrSize,
                        max_data_size |-> n + DefLevelSize(1, n), page_data |-> 0,
                        compressed_data |-> 0, start_row |-> sr, num_rows |-> n]]
    /\ \E fill \in RingFills :
         s = [EncState(pages[0], fill) EXCEPT !.rle_out = IF rin.path = "levels" THEN @ + 4 ELSE @]
    /\ mem = <<>>
    /\ memFill = 0
    /\ rcalls = 0
    /\ rlast = [pending |-> FALSE, numvals |-> 0, flush |-> FALSE, cur_row |-> 0]
    /\ bar = Idle
    /\ chunks = <<>> /\ bfr = <<>> /\ ckbfr = <<>> /\ comp_out = NoStatus /\ comp_in = NoStatus
    /\ done = {}
    /\ FragIdle

\* lines 752-757 and 801-827: the lanes store the batch in the ring
RingFill ==
    /\ ~rlast.pending
    /\ \/ /\ rin.path = "levels"
          /\ s.rle_numvals < pages[0].num_rows
          /\ s' = [s EXCEPT !.vals = DefLevelStore(s.vals, col, pages[0].start_row + s.rle_numvals,
                                                   s.rle_numvals)]
          /\ rlast' = [pending |-> TRUE,
                       numvals |-> s.rle_numvals + DefBatch(pages[0], s),
                       flush |-> s.rle_numvals + DefBatch(pages[0], s) = pages[0].num_rows,
                       cur_row |-> 0]
       \/ /\ rin.path = "values"
          /\ rlast.cur_row < pages[0].num_rows
          /\ \E new \in {s.rle_numvals
                           + ValidCount(col, pages[0].start_row + rlast.cur_row, EncodeThreads)} :
               /\ s' = [s EXCEPT !.vals = DictStore(s.vals, new,
                                             ValidVals(col, pages[0].start_row + rlast.cur_row,
                                                       EncodeThreads))]
               /\ rlast' = [pending |-> TRUE, numvals |-> new,
                            flush |-> rlast.cur_row + Min(pages[0].num_rows - rlast.cur_row, 128)
                                        = pages[0].num_rows,
                            cur_row |-> rlast.cur_row
                                          + Min(pages[0].num_rows - rlast.cur_row, 128)]
    /\ UNCHANGED <<rin, mem, memFill, rcalls, bar>>
    /\ UNCHANGED pageVars
    /\ UNCHANGED fragVars

\* lines 758 and 828: the call of RleEncode that the fill prepared
RingEncode ==
    /\ rlast.pending
    /\ \E x \in {RleEncode(s, mem, rlast.numvals,
                           IF rin.path = "levels" THEN col.level_bits % 16
                           ELSE DictBits(col.physical_type),
                           rlast.flush)} :
         /\ s' = x.st
         /\ mem' = x.mem
    /\ rlast' = [rlast EXCEPT !.pending = FALSE]
    /\ rcalls' = rcalls + 1
    /\ UNCHANGED <<rin, memFill, bar>>
    /\ UNCHANGED pageVars
    /\ UNCHANGED fragVars

RingNext ==
    \/ RingFill
    \/ RingEncode

SpecRing == RingInit /\ [][RingNext]_vars

\* the positions of the input sequence that the prepared call of RleEncode reads
RingRead == s.rle_pos..(rlast.numvals - 1)

\* C31: when the value loop calls RleEncode, the count it passes is the number of valid rows
\* of the page in the batches so far, and every position k that the call reads holds the
\* value of the k-th valid row of the page.
ValuesDense ==
    (rin.path = "values" /\ rlast.pending) =>
        \A e \in {ValidVals(col, pages[0].start_row, pages[0].num_rows)} :
            /\ rlast.numvals = ValidCount(col, pages[0].start_row, rlast.cur_row)
            /\ \A k \in RingRead : k < Len(e) /\ s.vals[k % RLE_BFRSZ] = e[k + 1]

\* the count alone, for the pages that end with the column or with a full batch
ValuesCounted ==
    (/\ rin.path = "values" /\ rlast.pending
     /\ \/ pages[0].start_row + pages[0].num_rows = col.num_rows
        \/ pages[0].num_rows % EncodeThreads = 0)
        => rlast.numvals = ValidCount(col, pages[0].start_row, rlast.cur_row)

\* C32: when the level loop calls RleEncode, every position i that the call reads holds the
\* validity bit of row start_row + i, and the count of the last call is the page's num_rows.
LevelsWritten ==
    (rin.path = "levels" /\ rlast.pending) =>
        /\ rlast.numvals <= pages[0].num_rows
        /\ rlast.flush <=> rlast.numvals = pages[0].num_rows
        /\ \A i \in RingRead : s.vals[i % RLE_BFRSZ] = IsValid(col, pages[0].start_row + i)

\* the same for the pages of at most 128 rows
LevelsWrittenOneBatch ==
    (rin.path = "levels" /\ rlast.pending /\ pages[0].num_rows <= EncodeThreads) =>
        /\ rlast.numvals = pages[0].num_rows
        /\ \A i \in RingRead : s.vals[i % RLE_BFRSZ] = IsValid(col, pages[0].start_row + i)

----------------------------------------------------------------------------
\* the destination cursor of gpuGatherPages is at or in front of the slot of every page
\* of chunk c when the page is copied
CursorBeforeSlots(c) ==
    \A k \in OwnPages(chunks[c]) : GatheredBefore(c, k) <= GatherSrc(pages[k])

\* C33: once gpuGatherPages has run for a chunk, the destination cursor was at or in front of
\* the start of each page's source slot when the page was copied, so that no copy wrote
\* over the slot of a page behind it.
GatherCursorBehindSource ==
    \A c \in DOMAIN chunks : <<"GatherPages", c>> \in done => CursorBeforeSlots(c)

\* the same for the chunks whose pages all kept to the bytes reserved for them
GatherCursorWithinSlots ==
    \A c \in DOMAIN chunks :
      (/\ <<"GatherPages", c>> \in done
       /\ \A k \in OwnPages(chunks[c]) :
            k + 1 \in OwnPages(chunks[c]) =>
              pages[k + 1].page_data - pages[k].page_data
                >= pages[k].max_hdr_size + pages[k].max_data_size)
        => CursorBeforeSlots(c)

----------------------------------------------------------------------------
(***************************************************************************)
(* The page planner with fragments larger than the page size thresholds:   *)
(* one chunk of one to three fragments, each with rows, whose rows sum to  *)
(* the chunk's num_rows.                                                   *)
(***************************************************************************)
BigFragCounts == {1, 2, 3}
BigFragRows == {1, 3}
BigFragSizes == {1000, 300000, 600000}

BigInit ==
    /\ RleIdle
    /\ memFill = 0
    /\ \E lb \in PlanLevelBits :
         col = [physical_type |-> "INT32", level_bits |-> lb, num_rows |-> 0,
                valid_map_base |-> NullPtr, vpat |-> "all", dpat |-> "mod3"]
    /\ \E n \in BigFragCounts :
         \E frags \in [1..n -> [num_rows : BigFragRows, fragment_data_size : BigFragSizes]] :
           chunks = [c \in {0} |->
                       [start_row |-> 0, num_rows |-> SumRows(frags, n), first_page |-> 0,
                        num_pages |-> 0, bfr_size |-> 0, compressed_size |-> 0,
                        is_compressed |-> FALSE, fragments |-> frags]]
    /\ pages = <<>>
    /\ bfr = <<>>
    /\ ckbfr = <<>>
    /\ comp_in = NoStatus
    /\ comp_out = NoStatus
    /\ done = {}
    /\ FragIdle

BigNext == \E c \in DOMAIN chunks : InitPages(c)

SpecBig == BigInit /\ [][BigNext]_vars

\* every page of the planned chunk c has a fragment and a row
PagesHaveRows(c) ==
    \A k \in 1..chunks[c].num_pages :
        /\ ChunkPages(chunks[c])[k].num_fragments >= 1
        /\ ChunkPages(chunks[c])[k].num_rows >= 1

\* C34: once gpuInitPages has run for a chunk with rows, every page of the chunk covers at
\* least one fragment and at least one row.
NoEmptyPage ==
    \A c \in DOMAIN chunks :
        (<<"InitPages", c>> \in done /\ chunks[c].num_rows > 0) => PagesHaveRows(c)

\* the same for the chunks whose first fragment is not larger than 512 KiB
NoEmptyPageBehindFirst ==
    \A c \in DOMAIN chunks :
        (/\ <<"InitPages", c>> \in done
         /\ chunks[c].num_rows > 0
         /\ chunks[c].fragments[1].fragment_data_size <= 512 * 1024)
            => PagesHaveRows(c)

----------------------------------------------------------------------------
\* C35: the block of a fragment has written, besides its PageFragment, only entries of
\* dict_index and dict_data with index in [start_row, start_row + num_rows).
FragWritesOwnRows ==
    FragWritten =>
        /\ DOMAIN fragOut.dict_index \subseteq FragRange
        /\ DOMAIN fragOut.dict_data \subseteq FragRange


----------------------------------------------------------------------------
(***************************************************************************)
(* gpuEncodePages for one page of a BOOLEAN column, one pass of a loop at  *)
(* a time: the batches of the definition-level loop (lines 751-760) and of *)
(* the value loop (lines 800-830) and, inside every call of RleEncode, the *)
(* passes of its while loop (lines 558-704).  rlast holds the position of  *)
(* the block (pc, path), the arguments of the call, the locals l of        *)
(* RleEncode, cur_row of the value loop, and the counts of the passes so   *)
(* far and of the calls that were left to wait for more values.            *)
(***************************************************************************)
LoopRows == {1, 100, 130, 600, 1100}
LoopStartRows == {0, 3}
LoopRowsBehind == {0, 5}
LoopValidity == {<<NullPtr, "all">>, <<"bitmap", "alt">>, <<"bitmap", "tail">>, <<"bitmap", "none">>}

\* lines 555-556: the locals of RleEncode when the call starts
LoopEntry(st, m) ==
    [rle_pos |-> st.rle_pos, rle_run |-> st.rle_run, run_val |-> st.run_val,
     rle_out |-> st.rle_out, rle_lit_count |-> st.rle_lit_count,
     rle_rpt_count |-> st.rle_rpt_count, mem |-> m, brk |-> FALSE, rpt |-> 0,
     lits |-> <<>>, packs |-> <<>>, rpts |-> <<>>]

LoopInit ==
    /\ rin = [path |-> "pages"]
    /\ \E sr \in LoopStartRows, n \in LoopRows, more \in LoopRowsBehind, v \in LoopValidity :
         /\ col = [physical_type |-> "BOOLEAN", level_bits |-> 1, num_rows |-> sr + n + more,
                   valid_map_base |-> v[1], vpat |-> v[2], dpat |-> "bool"]
         /\ pages = [b \in {0} |->
                       [num_fragments |-> 1, chunk_id |-> 0, page_type |-> "DATA_PAGE",
                        hdr_size |-> 0, max_hdr_size |-> MaxHdrSize,
                        max_data_size |-> n + DefLevelSize(1, n), page_data |-> 0,
                        compressed_data |-> 0, start_row |-> sr, num_rows |-> n]]
    /\ \E fill \in RingFills :
         /\ s = [EncState(pages[0], fill) EXCEPT !.rle_out = @ + 4]
         /\ rlast = [pc |-> "fill", path |-> "levels", numvals |-> 0, flush |-> FALSE,
                     cur_row |-> 0, l |-> LoopEntry(s, <<>>), passes |-> 0, waits |-> 0]
    /\ mem = <<>>
    /\ memFill = 0
    /\ rcalls = 0
    /\ bar = Idle
    /\ chunks = <<>> /\ bfr = <<>> /\ ckbfr = <<>> /\ comp_out = NoStatus /\ comp_in = NoStatus
    /\ done = {}
    /\ FragIdle

\* the width RleEncode is called with on the two paths
LoopBits == IF rlast.path = "levels" THEN col.level_bits % 16 ELSE DictBits(col.physical_type)

\* the while loop of RleEncode goes on (line 558, and no break)
LoopGoesOn == rlast.l.rle_pos < rlast.numvals /\ ~rlast.l.brk

\* lines 752-758 and 801-828: the lanes store the next batch and the call of RleEncode starts
LoopBatch ==
    /\ rlast.pc = "fill"
    /\ \/ /\ rlast.path = "levels"
          /\ s.rle_numvals < pages[0].num_rows
          /\ \E st \in {[s EXCEPT !.vals = DefLevelStore(s.vals, col,
                                                         pages[0].start_row + s.rle_numvals,
                                                         s.rle_numvals)]} :
               /\ s' = st
               /\ rlast' = [rlast EXCEPT
                              !.pc = "pass",
                              !.numvals = s.rle_numvals + DefBatch(pages[0], s),
                              !.flush = s.rle_numvals + DefBatch(pages[0], s) = pages[0].num_rows,
                              !.l = LoopEntry(st, mem)]
       \/ /\ rlast.path = "values"
          /\ rlast.cur_row < pages[0].num_rows
          /\ \E new \in {s.rle_numvals
                           + ValidCount(col, pages[0].start_row + rlast.cur_row, EncodeThreads)},
                nrows \in {Min(pages[0].num_rows - rlast.cur_row, 128)} :
               \E st \in {[s EXCEPT !.vals = DictStore(s.vals, new,
                                               ValidVals(col, pages[0].start_row + rlast.cur_row,
                                                         EncodeThreads))]} :
                 /\ s' = st
                 /\ rlast' = [rlast EXCEPT
                                !.pc = "pass",
                                !.numvals = new,
                                !.flush = rlast.cur_row + nrows = pages[0].num_rows,
                                !.cur_row = rlast.cur_row + nrows,
                                !.l = LoopEntry(st, mem)]
    /\ UNCHANGED <<rin, mem, memFill, rcalls, bar>>
    /\ UNCHANGED pageVars
    /\ UNCHANGED fragVars

\* lines 558-704: one pass of the while loop of RleEncode
LoopPass ==
    /\ rlast.pc = "pass"
    /\ LoopGoesOn
    /\ \E l \in {RleIter(s.vals, rlast.l, rlast.numvals, LoopBits, rlast.flush)} :
         rlast' = [rlast EXCEPT !.l = l, !.passes = rlast.passes + 1,
                                !.waits = IF l.brk /\ ~rlast.flush THEN rlast.waits + 1
                                          ELSE rlast.waits]
    /\ UNCHANGED <<rin, s, mem, memFill, rcalls, bar>>
    /\ UNCHANGED pageVars
    /\ UNCHANGED fragVars

\* lines 705-709, 759 and 829: the loop is left, lane 0 stores the locals back and the
\* call returns to the loop of the caller
LoopReturn ==
    /\ rlast.pc = "pass"
    /\ ~LoopGoesOn
    /\ s' = RleStoreBack(s, rlast.l, rlast.numvals).st
    /\ mem' = RleStoreBack(s, rlast.l, rlast.numvals).mem
    /\ rlast' = [rlast EXCEPT !.pc = "fill"]
    /\ rcalls' = rcalls + 1
    /\ UNCHANGED <<rin, memFill, bar>>
    /\ UNCHANGED pageVars
    /\ UNCHANGED fragVars

\* lines 751, 762-773 and 788-800: the loop of the caller is left; behind the level loop
\* the length word is stored and lane 0 resets the run state for the values, behind the
\* value loop the block is done
LoopLeave ==
    /\ rlast.pc = "fill"
    /\ \/ /\ rlast.path = "levels"
          /\ ~(s.rle_numvals < pages[0].num_rows)
          /\ \E x \in {EncDefClose([st |-> s, mem |-> mem])} :
               /\ s' = [x.st EXCEPT !.rle_run = 0, !.rle_pos = 0, !.rle_numvals = 0,
                                    !.rle_out = x.st.cur]
               /\ mem' = x.mem
          /\ rlast' = [rlast EXCEPT !.path = "values"]
       \/ /\ rlast.path = "values"
          /\ ~(rlast.cur_row < pages[0].num_rows)
          /\ rlast' = [rlast EXCEPT !.pc = "done"]
          /\ UNCHANGED <<s, mem>>
    /\ UNCHANGED <<rin, memFill, rcalls, bar>>
    /\ UNCHANGED pageVars
    /\ UNCHANGED fragVars

LoopNext ==
    \/ LoopBatch
    \/ LoopPass
    \/ LoopReturn
    \/ LoopLeave

SpecLoop == LoopInit /\ [][LoopNext]_vars

\* the block has not returned: a step of LoopNext is possible, that is ENABLED <<LoopNext>>_vars
\* (one of the four guards holds and every step changes rlast)
LoopRunning == rlast.pc # "done"

\* The lanes of a block that has not returned keep being scheduled: weak fairness of
\* LoopNext, WF_vars(LoopNext), written out with LoopRunning for ENABLED <<LoopNext>>_vars
FairLoop == SpecLoop /\ ([]<>~LoopRunning \/ []<><<LoopNext>>_vars)

\* a pass of RleEncode's loop moves rle_pos forward or leaves the loop
PassAdvances ==
    [][LoopPass => (rlast'.l.rle_pos > rlast.l.rle_pos \/ rlast'.l.brk)]_vars

\* a batch of the level loop hands RleEncode at least one new value
BatchHasValues ==
    [][(LoopBatch /\ rlast.path = "levels") => rlast'.numvals > s.rle_numvals]_vars

\* when the level loop takes its next batch the ring is not full of unconsumed values
RingNotFull ==
    (rlast.pc = "fill" /\ rlast.path = "levels") => s.rle_numvals - s.rle_pos < RLE_BFRSZ

\* the level loop is left with rle_numvals at the page's num_rows
LevelsReachRows ==
    [][(LoopLeave /\ rlast.path = "levels") => s.rle_numvals = pages[0].num_rows]_vars

\* C36: gpuEncodePages terminates for every page: every pass of RleEncode's loop moves rle_pos
\* forward by at least one value or leaves the loop, every batch of the level loop hands
\* RleEncode at least one new value, so that rle_numvals reaches the page's num_rows, the
\* level loop is left, and the block gets to the end of the value loop.
EncodePagesTerminates ==
    /\ PassAdvances
    /\ BatchHasValues
    /\ []RingNotFull
    /\ LevelsReachRows
    /\ <>(rlast.path = "values")
    /\ <>(rlast.pc = "done")

\* a block is done with a page of more than 512 rows after calls of RleEncode that were
\* left to wait for more values
WaitedAndDone ==
    /\ rlast.pc = "done"
    /\ rlast.waits > 0
    /\ pages[0].num_rows > RLE_BFRSZ
=============================================================================
